---- MODULE Spec2Model ----
(***************************************************************************)
(* Model of the reliability layer of the GitHub Copilot metrics MCP server: *)
(* the validators, the error classifier (handleAPIError), the retry loop    *)
(* (retryOperation) of src/src/error-handling.ts and the GitHubService      *)
(* facade of src/src/github-service.ts that composes them.                  *)
(*                                                                         *)
(* An async function is modelled by one action per run-to-completion step:  *)
(* the synchronous prefix up to the first await, and one continuation per   *)
(* settled promise or fired timer.                                          *)
(***************************************************************************)
EXTENDS Integers, Sequences, FiniteSets, TLC

(***************************************************************************)
(* Bounds of the model.                                                     *)
(***************************************************************************)
\* largest maxRetries handed to a direct retryOperation call
MaxRetriesBound == 4

(***************************************************************************)
(* JavaScript values.                                                       *)
(***************************************************************************)
\* the value `undefined` where a number is expected
Undefined == -1

\* the value NaN
NaN == -1000000007

\* an omitted (undefined) string argument or property
UndefStr == <<"undefined">>

\* if (str): the string is neither undefined nor the empty string
Truthy(str) == str # UndefStr /\ str # <<>>

\* x || 0 for an optional number
OrZero(x) == IF x = Undefined THEN 0 ELSE x

\* base ^ e for e >= 0 (Math.pow on small integers)
RECURSIVE Pow(_, _)
Pow(base, e) == IF e <= 0 THEN 1 ELSE base * Pow(base, e - 1)

(***************************************************************************)
(* Thrown values.  cls is the class of the thrown object ("NonError" is a   *)
(* thrown value that is not an instance of Error); statusCode is the field  *)
(* of GitHubAPIError, status and resp are the fields of an upstream         *)
(* (Octokit) error, field is the field of a ValidationError, and at is the  *)
(* attempt whose invocation produced the object (0: made by the retry loop  *)
(* itself, before any attempt).                                             *)
(***************************************************************************)
MkErr(cls, statusCode, status, resp, msg, field, at) ==
    [cls |-> cls, statusCode |-> statusCode, status |-> status, resp |-> resp,
     msg |-> msg, field |-> field, at |-> at,
     reset |-> UndefStr, resetTime |-> Undefined, retryAfter |-> Undefined]

NoErr == MkErr("none", Undefined, Undefined, "none", "", "", 0)

GitHubAPIError(msg, statusCode, at) ==
    MkErr("GitHubAPIError", statusCode, Undefined, "none", msg, "", at)

ValidationError(msg, field, at) ==
    MkErr("ValidationError", Undefined, Undefined, "none", msg, field, at)

\* resetTime is the instant of the Date in ms, retryAfter a number of seconds
RateLimitError(msg, resetTime, retryAfter, at) ==
    [MkErr("RateLimitError", Undefined, Undefined, "none", msg, "", at)
        EXCEPT !.resetTime = resetTime, !.retryAfter = retryAfter]

\* new Error(msg)
PlainError(msg, at) ==
    MkErr("Error", Undefined, Undefined, "none", msg, "", at)

(***************************************************************************)
(* retryOperation: the pieces of the catch block.                           *)
(***************************************************************************)
\* let lastError: Error = new Error("Unknown error")
InitialLastError == PlainError("Unknown error", 0)

\* faulty variant: lastError = new Error(String(error)), whatever was thrown
ToLastErrorAlwaysWrap(error) == PlainError(error.msg, error.at)

\* lastError = error instanceof Error ? error : new Error(String(error))
ToLastError(error) ==
    IF error.cls = "NonError" THEN PlainError(error.msg, error.at) ELSE error

\* faulty variant: the body runs once before the condition is tested
LoopConditionAtLeastOnce(a, m) == a <= m \/ a = 1

\* for (...; attempt <= maxRetries; ...)
LoopCondition(a, m) == a <= m

\* faulty variant: the break of the last attempt is missing
ExhaustedNever(a, m) == FALSE

\* faulty variant: if (attempt === maxRetries + 1)
ExhaustedOffByOne(a, m) == a = m + 1

\* if (attempt === maxRetries) { ...; break; }
Exhausted(a, m) == a = m

\* faulty variant: [401].includes(error.statusCode || 0)
NonRetryableOnly401(error) ==
    \/ error.cls = "ValidationError"
    \/ /\ error.cls = "GitHubAPIError"
       /\ OrZero(error.statusCode) \in {401}

\* error instanceof ValidationError ||
\* (error instanceof GitHubAPIError && [401, 404].includes(error.statusCode || 0))
NonRetryable(error) ==
    \/ error.cls = "ValidationError"
    \/ /\ error.cls = "GitHubAPIError"
       /\ OrZero(error.statusCode) \in {401, 404}

\* faulty variant: const delay = backoffMs * attempt
BackoffDelayLinear(b, a) == b * a

\* const delay = backoffMs * Math.pow(2, attempt - 1)
BackoffDelay(b, a) == b * Pow(2, a - 1)

\* attempt++
NextAttempt(a) == a + 1

(***************************************************************************)
(* Strings are sequences of one-character strings.                          *)
(***************************************************************************)
Letters ==
    {"a", "b", "c", "d", "e", "f", "g", "h", "i", "j", "k", "l", "m",
     "n", "o", "p", "q", "r", "s", "t", "u", "v", "w", "x", "y", "z",
     "A", "B", "C", "D", "E", "F", "G", "H", "I", "J", "K", "L", "M",
     "N", "O", "P", "Q", "R", "S", "T", "U", "V", "W", "X", "Y", "Z"}

DigitChars == {"0", "1", "2", "3", "4", "5", "6", "7", "8", "9"}

\* [a-zA-Z0-9]
IsAlnum(c) == c \in Letters \cup DigitChars

\* [a-zA-Z0-9-]
IsAlnumOrHyphen(c) == IsAlnum(c) \/ c = "-"

\* the string of n copies of the character c
Rep(c, n) == [i \in 1..n |-> c]

\* /^[a-zA-Z0-9]([a-zA-Z0-9-]*[a-zA-Z0-9])?$/.test(s)
MatchesStandard(s) ==
    /\ Len(s) >= 1
    /\ IsAlnum(s[1])
    /\ IsAlnum(s[Len(s)])
    /\ \A i \in 1..Len(s) : IsAlnumOrHyphen(s[i])

\* faulty variant: the suffix is [a-zA-Z0-9-]+
MatchesIdpHyphenSuffix(s) ==
    \E u \in 2..(Len(s) - 1) :
        /\ s[u] = "_"
        /\ MatchesStandard(SubSeq(s, 1, u - 1))
        /\ \A i \in (u + 1)..Len(s) : IsAlnumOrHyphen(s[i])

\* /^[a-zA-Z0-9](?:[a-zA-Z0-9-]*[a-zA-Z0-9])?_[a-zA-Z0-9]+$/.test(s)
MatchesIdp(s) ==
    \E u \in 2..(Len(s) - 1) :
        /\ s[u] = "_"
        /\ MatchesStandard(SubSeq(s, 1, u - 1))
        /\ \A i \in (u + 1)..Len(s) : IsAlnum(s[i])

(***************************************************************************)
(* Validators.  Each returns the ValidationError it throws, or NoErr when   *)
(* it returns normally.                                                     *)
(***************************************************************************)
\* longest organization name or username
MaxNameLength == 39

\* faulty variant: org.length >= 39
validateOrganizationNameBelow39(org) ==
    IF Len(org) = 0
    THEN ValidationError("Organization name is required and must be a string", "org", 0)
    ELSE IF Len(org) < 1 \/ Len(org) >= MaxNameLength
    THEN ValidationError("Organization name must be between 1 and 39 characters", "org", 0)
    ELSE IF ~MatchesStandard(org)
    THEN ValidationError("Organization name contains invalid characters", "org", 0)
    ELSE NoErr

validateOrganizationName(org) ==
    IF Len(org) = 0
    THEN ValidationError("Organization name is required and must be a string", "org", 0)
    ELSE IF Len(org) < 1 \/ Len(org) > MaxNameLength
    THEN ValidationError("Organization name must be between 1 and 39 characters", "org", 0)
    ELSE IF ~MatchesStandard(org)
    THEN ValidationError("Organization name contains invalid characters", "org", 0)
    ELSE NoErr

validateUsername(username) ==
    IF Len(username) = 0
    THEN ValidationError("Username is required and must be a string", "username", 0)
    ELSE IF Len(username) < 1 \/ Len(username) > MaxNameLength
    THEN ValidationError("Username must be between 1 and 39 characters", "username", 0)
    ELSE IF ~MatchesStandard(username) /\ ~MatchesIdp(username)
    THEN ValidationError("Username contains invalid characters or does not follow allowed patterns", "username", 0)
    ELSE NoErr

\* the digit a character denotes
DigitVal(c) ==
    CASE c = "0" -> 0 [] c = "1" -> 1 [] c = "2" -> 2 [] c = "3" -> 3
      [] c = "4" -> 4 [] c = "5" -> 5 [] c = "6" -> 6 [] c = "7" -> 7
      [] c = "8" -> 8 [] c = "9" -> 9

\* /^\d{4}-\d{2}-\d{2}$/.test(date)
MatchesDateShape(date) ==
    /\ Len(date) = 10
    /\ \A i \in {1, 2, 3, 4, 6, 7, 9, 10} : date[i] \in DigitChars
    /\ date[5] = "-"
    /\ date[8] = "-"

\* !isNaN(new Date(date).getTime()) for a string of the shape YYYY-MM-DD:
\* the engine (V8) takes a month in 1..12 and a day in 1..31, and carries a
\* day past the end of the month into the next month.
ParsesToDate(date) ==
    LET month == 10 * DigitVal(date[6]) + DigitVal(date[7])
        day   == 10 * DigitVal(date[9]) + DigitVal(date[10])
    IN  month \in 1..12 /\ day \in 1..31

validateDateString(date, fieldName) ==
    IF ~MatchesDateShape(date)
    THEN ValidationError("must be in YYYY-MM-DD format", fieldName, 0)
    ELSE IF ~ParsesToDate(date)
    THEN ValidationError("is not a valid date", fieldName, 0)
    ELSE NoErr

\* faulty variant: per_page is checked before page
validatePaginationParamsPerPageFirst(page, per_page) ==
    IF per_page < 1 \/ per_page > 100
    THEN ValidationError("per_page must be between 1 and 100", "per_page", 0)
    ELSE IF page < 1
    THEN ValidationError("Page must be greater than 0", "page", 0)
    ELSE NoErr

validatePaginationParams(page, per_page) ==
    IF page < 1
    THEN ValidationError("Page must be greater than 0", "page", 0)
    ELSE IF per_page < 1 \/ per_page > 100
    THEN ValidationError("per_page must be between 1 and 100", "per_page", 0)
    ELSE NoErr

(***************************************************************************)
(* Error classifier.  handleAPIError never returns: the value of the        *)
(* operator is the error it throws.                                         *)
(***************************************************************************)
\* the value of a string of digits
RECURSIVE DigitsValue(_)
DigitsValue(str) ==
    IF str = <<>> THEN 0
    ELSE 10 * DigitsValue(SubSeq(str, 1, Len(str) - 1)) + DigitVal(str[Len(str)])

\* the longest prefix of str made of digits
RECURSIVE LeadingDigits(_)
LeadingDigits(str) ==
    IF str = <<>> \/ Head(str) \notin DigitChars THEN <<>>
    ELSE <<Head(str)>> \o LeadingDigits(Tail(str))

\* parseInt(str) for a string without leading blanks or sign: the number its
\* leading digits denote, NaN when it does not start with a digit
ParseInt(str) ==
    IF LeadingDigits(str) = <<>> THEN NaN ELSE DigitsValue(LeadingDigits(str))

\* x * y and x - y on numbers that may be NaN
Times(x, y) == IF x = NaN \/ y = NaN THEN NaN ELSE x * y

Minus(x, y) == IF x = NaN \/ y = NaN THEN NaN ELSE x - y

\* faulty variant: Math.floor
CeilDivFloor(x, d) == IF x = NaN THEN NaN ELSE x \div d

\* Math.ceil(x / d) for d > 0
CeilDiv(x, d) == IF x = NaN THEN NaN ELSE -((-x) \div d)

\* apiError.response?.headers?.["x-ratelimit-reset"]
RateLimitResetHeader(error) ==
    IF error.resp = "headers" THEN error.reset ELSE UndefStr

\* if (resetTime)
HasRateLimitReset(error) == Truthy(RateLimitResetHeader(error))

\* new Date(parseInt(resetTime) * 1000).getTime()
ResetDate(error) == Times(ParseInt(RateLimitResetHeader(error)), 1000)

\* Math.ceil((resetDate.getTime() - Date.now()) / 1000)
RetryAfter(error, now) == CeilDiv(Minus(ResetDate(error), now), 1000)

\* faulty variant: the server error row tests status > 500
handleAPIErrorAbove500(error, now) ==
    IF error.status = 401
    THEN GitHubAPIError("Authentication failed. Please check your GitHub token or app credentials.", 401, error.at)
    ELSE IF error.status = 403
    THEN IF HasRateLimitReset(error)
         THEN RateLimitError("GitHub API rate limit exceeded. Please try again later.",
                             ResetDate(error), RetryAfter(error, now), error.at)
         ELSE GitHubAPIError("Access forbidden. Check your permissions for this operation.", 403, error.at)
    ELSE IF error.status = 404
    THEN GitHubAPIError("Resource not found. Please check the organization/user name.", 404, error.at)
    ELSE IF error.status > 500
    THEN GitHubAPIError("GitHub API server error. Please try again later.", error.status, error.at)
    ELSE GitHubAPIError(IF error.msg = "" THEN "Unknown GitHub API error" ELSE error.msg,
                        error.status, error.at)

\* faulty variant: the header is read as response?.headers["x-ratelimit-reset"],
\* which throws a TypeError when the response has no headers
handleAPIErrorUncheckedHeaders(error, now) ==
    IF error.status = 401
    THEN GitHubAPIError("Authentication failed. Please check your GitHub token or app credentials.", 401, error.at)
    ELSE IF error.status = 403
    THEN IF error.resp = "noHeaders"
         THEN MkErr("TypeError", Undefined, Undefined, "none",
                    "Cannot read properties of undefined", "", error.at)
         ELSE IF HasRateLimitReset(error)
         THEN RateLimitError("GitHub API rate limit exceeded. Please try again later.",
                             ResetDate(error), RetryAfter(error, now), error.at)
         ELSE GitHubAPIError("Access forbidden. Check your permissions for this operation.", 403, error.at)
    ELSE IF error.status = 404
    THEN GitHubAPIError("Resource not found. Please check the organization/user name.", 404, error.at)
    ELSE IF error.status >= 500
    THEN GitHubAPIError("GitHub API server error. Please try again later.", error.status, error.at)
    ELSE GitHubAPIError(IF error.msg = "" THEN "Unknown GitHub API error" ELSE error.msg,
                        error.status, error.at)

\* the decision table of handleAPIError(error, operation), with now the
\* value of Date.now()
handleAPIError(error, now) ==
    IF error.status = 401
    THEN GitHubAPIError("Authentication failed. Please check your GitHub token or app credentials.", 401, error.at)
    ELSE IF error.status = 403
    THEN IF HasRateLimitReset(error)
         THEN RateLimitError("GitHub API rate limit exceeded. Please try again later.",
                             ResetDate(error), RetryAfter(error, now), error.at)
         ELSE GitHubAPIError("Access forbidden. Check your permissions for this operation.", 403, error.at)
    ELSE IF error.status = 404
    THEN GitHubAPIError("Resource not found. Please check the organization/user name.", 404, error.at)
    ELSE IF error.status >= 500
    THEN GitHubAPIError("GitHub API server error. Please try again later.", error.status, error.at)
    ELSE GitHubAPIError(IF error.msg = "" THEN "Unknown GitHub API error" ELSE error.msg,
                        error.status, error.at)

\* handleAPIError calls Date.now() only on the rate-limit row
ReadsClock(error) == error.status = 403 /\ HasRateLimitReset(error)

(***************************************************************************)
(* Inputs.                                                                  *)
(***************************************************************************)
\* longest username list handed to a bulk operation
MaxBatch == 2

OctoOrg == <<"o", "c", "t", "o", "-", "o", "r", "g">>
OkUser == <<"o", "k", "-", "u", "s", "e", "r">>
BadUserBad == <<"b", "a", "d", "_", "u", "s", "e", "r", "_", "b", "a", "d">>
UsernameIdp == <<"u", "s", "e", "r", "n", "a", "m", "e", "_", "i", "d", "p">>
TestMyUser == <<"t", "e", "s", "t", "_", "m", "y", "-", "u", "s", "e", "r">>
TestMyIdp == <<"t", "e", "s", "t", "-", "m", "y", "_", "i", "d", "p">>

OrgNames ==
    {<<>>, OctoOrg, <<"-", "a">>, <<"a", "_", "b">>,
     Rep("a", MaxNameLength), Rep("a", MaxNameLength + 1)}

Usernames ==
    {<<>>, OkUser, BadUserBad, UsernameIdp, TestMyUser, TestMyIdp,
     Rep("a", MaxNameLength + 1)}

BatchUsernames == {OkUser, BadUserBad, TestMyIdp}

Batches == UNION {[1..n -> BatchUsernames] : n \in 0..MaxBatch}

Date20240115 == <<"2", "0", "2", "4", "-", "0", "1", "-", "1", "5">>
Date20240230 == <<"2", "0", "2", "4", "-", "0", "2", "-", "3", "0">>
Date20241301 == <<"2", "0", "2", "4", "-", "1", "3", "-", "0", "1">>
InvalidDate == <<"i", "n", "v", "a", "l", "i", "d", "-", "d", "a", "t", "e">>

Dates == {UndefStr, <<>>, Date20240115, Date20240230, Date20241301, InvalidDate}

Pages == {Undefined, 0, 1}

PerPages == {Undefined, 0, 100, 101}

\* what a direct caller's operation, or the upstream client, resolves with
Values == {"v1", "v2"}

\* backoffMs of a direct retryOperation call
Backoffs == {1, 1000}

\* maxRetries of a direct retryOperation call
RetryBudgets == (-1)..MaxRetriesBound

\* what the operation of a direct retryOperation call may reject with
OperationFailures(at) ==
    {ValidationError("invalid", "x", at), RateLimitError("rate", 60000, 60, at),
     PlainError("boom", at),
     MkErr("NonError", Undefined, Undefined, "none", "oops", "", at)}
    \cup {GitHubAPIError("api", c, at) : c \in {Undefined, 401, 403, 404, 500}}

\* an error of the upstream client (Octokit): an Error that may carry a
\* status and a response ("none": no response, "noHeaders": a response
\* without headers, "headers": a response with headers, reset being the
\* value of its x-ratelimit-reset header)
UpstreamError(status, resp, reset, msg, at) ==
    [MkErr("Error", Undefined, status, resp, msg, "", at) EXCEPT !.reset = reset]

\* values of the x-ratelimit-reset header: unix seconds
Header60 == <<"6", "0">>
Header61 == <<"6", "1">>

\* values of Date.now(), in ms
Nows == {0, 500, 1000, 60000, 61000}

\* what an upstream call of the facade may reject with
UpstreamFailures(at) ==
    {UpstreamError(401, "headers", UndefStr, "Bad credentials", at),
     UpstreamError(403, "headers", UndefStr, "Forbidden", at),
     UpstreamError(403, "headers", Header60, "rate limit", at),
     UpstreamError(404, "headers", UndefStr, "Not Found", at),
     UpstreamError(500, "headers", UndefStr, "Server Error", at),
     UpstreamError(Undefined, "none", UndefStr, "socket hang up", at)}

(***************************************************************************)
(* Inputs of the validators and of handleAPIError when they are called      *)
(* directly.                                                                *)
(***************************************************************************)
\* longest string of the exhaustive part of the name inputs
MaxStrLen == 3

\* one letter, one digit, the hyphen, the underscore and a character that
\* no pattern admits
NameChars == {"a", "7", "-", "_", "."}

ShortStrings == UNION {[1..n -> NameChars] : n \in 0..MaxStrLen}

\* names around the length limit
LongNames ==
    {Rep("a", n) : n \in {MaxNameLength - 1, MaxNameLength, MaxNameLength + 1}}
    \cup {Rep("a", MaxNameLength - 2) \o <<"_", "b">>,
          Rep("a", MaxNameLength - 1) \o <<"_", "b">>,
          Rep("a", MaxNameLength - 1) \o <<"-">>,
          Rep("a", MaxNameLength) \o <<"-">>}

NameInputs ==
    ShortStrings \cup LongNames
    \cup {OctoOrg, OkUser, BadUserBad, UsernameIdp, TestMyUser, TestMyIdp}

Date20240229 == <<"2", "0", "2", "4", "-", "0", "2", "-", "2", "9">>
Date20230229 == <<"2", "0", "2", "3", "-", "0", "2", "-", "2", "9">>
Date20240431 == <<"2", "0", "2", "4", "-", "0", "4", "-", "3", "1">>
Date20241231 == <<"2", "0", "2", "4", "-", "1", "2", "-", "3", "1">>
Date20240010 == <<"2", "0", "2", "4", "-", "0", "0", "-", "1", "0">>
Date20240100 == <<"2", "0", "2", "4", "-", "0", "1", "-", "0", "0">>
Date20240132 == <<"2", "0", "2", "4", "-", "0", "1", "-", "3", "2">>
DateShort == <<"2", "0", "2", "4", "-", "1", "-", "0", "1">>
DateSlashes == <<"2", "0", "2", "4", "/", "0", "1", "/", "1", "5">>
DateWithTime == <<"2", "0", "2", "4", "-", "0", "1", "-", "1", "5", "T", "0", "0">>

DateInputs ==
    {<<>>, Date20240115, Date20240230, Date20241301, InvalidDate, Date20240229,
     Date20230229, Date20240431, Date20241231, Date20240010, Date20240100,
     Date20240132, DateShort, DateSlashes, DateWithTime}

DateFields == {"since", "until"}

PageInputs == {-5, 0, 1, 2}

PerPageInputs == {-5, 0, 1, 50, 100, 101}

HeaderAbc == <<"a", "b", "c">>

ResetHeaders == {UndefStr, <<>>, Header60, Header61, HeaderAbc}

StatusInputs == {Undefined, 200, 400, 401, 403, 404, 422, 499, 500, 503}

MessageInputs == {"", "Validation Failed"}

\* the error records handed to handleAPIError
ClassifierInputs ==
    {UpstreamError(st, "headers", h, m, 0) :
        st \in StatusInputs, h \in ResetHeaders, m \in MessageInputs}
    \cup {UpstreamError(st, r, UndefStr, m, 0) :
        st \in StatusInputs, r \in {"none", "noHeaders"}, m \in MessageInputs}

(***************************************************************************)
(* GitHubService: the constructor.                                          *)
(***************************************************************************)
GitHubConfig(token, appId, privateKey, installationId) ==
    [token |-> token, appId |-> appId, privateKey |-> privateKey,
     installationId |-> installationId]

\* new GitHubService({})
NoConfig == GitHubConfig(UndefStr, UndefStr, UndefStr, UndefStr)

\* a field of the configuration is missing, empty or set
ConfigValues == {UndefStr, <<>>, <<"x">>}

Configs ==
    {GitHubConfig(t, a, k, i) :
        t \in ConfigValues, a \in ConfigValues, k \in ConfigValues,
        i \in ConfigValues}

\* faulty variant: config.appId || config.privateKey || config.installationId
HasAppCredsAny(c) ==
    Truthy(c.appId) \/ Truthy(c.privateKey) \/ Truthy(c.installationId)

\* config.appId && config.privateKey && config.installationId
HasAppCreds(c) ==
    Truthy(c.appId) /\ Truthy(c.privateKey) /\ Truthy(c.installationId)

\* the authentication the constructor sets the Octokit up with; "none" when
\* it throws
ConstructorAuth(c) ==
    IF Truthy(c.token) THEN "token"
    ELSE IF HasAppCreds(c) THEN "app"
    ELSE "none"

\* what the constructor throws, or NoErr
ConstructorError(c) ==
    IF ConstructorAuth(c) = "none"
    THEN PlainError("Either token or GitHub App credentials must be provided", 0)
    ELSE NoErr

(***************************************************************************)
(* Logger.                                                                  *)
(***************************************************************************)
\* process.env.LOG_LEVEL is not set
EnvUnset == "<unset>"

\* LogLevel
LogLevels == {"debug", "error", "info", "warn"}

\* values of process.env.LOG_LEVEL; "verbose" is not a LogLevel
LogLevelSettings == LogLevels \cup {EnvUnset, "", "verbose"}

\* this.logLevel = (process.env.LOG_LEVEL as LogLevel) || LogLevel.INFO
LoggerLevel(env) == IF env = EnvUnset \/ env = "" THEN "info" ELSE env

\* const levels = [ERROR, WARN, INFO, DEBUG]
LevelOrder == <<"error", "warn", "info", "debug">>

\* levels.indexOf(x)
IndexOf(seq, x) ==
    IF \E i \in 1..Len(seq) : seq[i] = x
    THEN (CHOOSE i \in 1..Len(seq) :
            seq[i] = x /\ \A j \in 1..(i - 1) : seq[j] # x) - 1
    ELSE -1

\* faulty variant: levels.indexOf(level) < levels.indexOf(this.logLevel)
shouldLogStrict(level, configured) ==
    IndexOf(LevelOrder, level) < IndexOf(LevelOrder, configured)

\* levels.indexOf(level) <= levels.indexOf(this.logLevel)
shouldLog(level, configured) ==
    IndexOf(LevelOrder, level) <= IndexOf(LevelOrder, configured)

\* the entry log(level, message) writes
LogEntry(level, message) == [level |-> level, message |-> message]

\* the entries log(level, message) writes with console.error
Log(level, message, configured) ==
    IF ~shouldLog(level, configured) THEN <<>>
    ELSE <<LogEntry(level, message)>>

(***************************************************************************)
(* MCPClientDetector.  The environment is what the detectors read: the      *)
(* number of VS Code indicator variables that are set, the clients one of   *)
(* whose indicator variables is set, process.title, process.argv joined     *)
(* with spaces, and the name of the parent process ("unknown" when ps       *)
(* gives none).  The evidence list and the version are left out.            *)
(***************************************************************************)
\* most clients whose indicator variables are set at the same time
MaxEnvClients == 2

\* number of getClient / getClientInfo calls
MaxGetCalls == 3

\* s.includes(sub) for two strings
Includes(s, sub) ==
    \E i \in 1..(Len(s) - Len(sub) + 1) : SubSeq(s, i, i + Len(sub) - 1) = sub

\* the clients detected by indicator variables of their own, after VS Code
EnvClients ==
    {"claude", "cline", "continue", "cursor", "jetbrains", "warp", "zed", "windsurf"}

Environment(vscodeVars, clientVars, title, argv, parent) ==
    [vscodeVars |-> vscodeVars, clientVars |-> clientVars, title |-> title,
     argv |-> argv, parent |-> parent]

\* process.title = "node", process.argv = ["node", "script.js"], no variable
QuietEnvironment == Environment(0, {}, "node", "node script.js", "unknown")

VSCodeVarCounts == {0, 1, 3}

\* the clients whose indicator variables the inputs set
EnvClientInputs == {"claude", "cursor", "windsurf"}

ProcessTitles == {"node", "Code", "Code Helper (claude)"}

ProcessArgvs == {"node script.js", "node claude-mcp.js", "node code claude"}

ParentNames == {"unknown", "Code Helper", "Claude Code"}

Environments ==
    {Environment(n, cs, t, a, p) :
        n \in VSCodeVarCounts,
        cs \in {c \in SUBSET EnvClientInputs : Cardinality(c) <= MaxEnvClients},
        t \in ProcessTitles, a \in ProcessArgvs, p \in ParentNames}

\* new MCPClient(name, type, confidence)
MCPClient(name, type, confidence) ==
    [name |-> name, type |-> type, confidence |-> confidence]

\* the result of one detector
Detection(detected, name, type, confidence) ==
    [detected |-> detected, name |-> name, type |-> type, confidence |-> confidence]

NotDetected == Detection(FALSE, "Unknown", "unknown", "low")

\* confidence = foundIndicators.length >= 3 ? "high" : "medium"
detectVSCode(env) ==
    IF env.vscodeVars > 0
    THEN Detection(TRUE, "VS Code", "vscode",
                   IF env.vscodeVars >= 3 THEN "high" ELSE "medium")
    ELSE NotDetected

ClientName(type) ==
    CASE type = "claude" -> "Claude Desktop"
      [] type = "cline" -> "Cline"
      [] type = "continue" -> "Continue"
      [] type = "cursor" -> "Cursor"
      [] type = "jetbrains" -> "JetBrains IDE"
      [] type = "warp" -> "Warp Terminal"
      [] type = "zed" -> "Zed Editor"
      [] type = "windsurf" -> "Windsurf Editor"

\* detectClaude, detectCline, ..., detectWindsurf: foundIndicators.length > 0
detectByVariables(type, env) ==
    IF type \in env.clientVars
    THEN Detection(TRUE, ClientName(type), type, "high")
    ELSE NotDetected

\* the title is tested for code, then for claude; the arguments only when the
\* title gave nothing, for vscode/code first
detectFromProcess(env) ==
    LET titleCode == Includes(env.title, "code") \/ Includes(env.title, "Code")
        titleClaude == Includes(env.title, "claude") \/ Includes(env.title, "Claude")
        argvCode == Includes(env.argv, "vscode") \/ Includes(env.argv, "code")
        argvClaude == Includes(env.argv, "claude") \/ Includes(env.argv, "Claude")
    IN  IF titleClaude THEN Detection(TRUE, "Claude Desktop", "claude", "medium")
        ELSE IF titleCode THEN Detection(TRUE, "VS Code", "vscode", "medium")
        ELSE IF argvCode THEN Detection(TRUE, "VS Code", "vscode", "medium")
        ELSE IF argvClaude THEN Detection(TRUE, "Claude Desktop", "claude", "medium")
        ELSE NotDetected

detectFromParentProcess(env) ==
    IF env.parent = "" \/ env.parent = "unknown" THEN NotDetected
    ELSE IF Includes(env.parent, "claude") \/ Includes(env.parent, "Claude")
    THEN Detection(TRUE, "Claude Desktop", "claude", "high")
    ELSE IF Includes(env.parent, "code") \/ Includes(env.parent, "Code")
    THEN Detection(TRUE, "VS Code", "vscode", "high")
    ELSE NotDetected

\* the detectors in the order detectClient consults them
Detections(env) ==
    <<detectVSCode(env), detectByVariables("claude", env),
      detectByVariables("cline", env), detectByVariables("continue", env),
      detectByVariables("cursor", env), detectByVariables("jetbrains", env),
      detectByVariables("warp", env), detectByVariables("zed", env),
      detectByVariables("windsurf", env), detectFromProcess(env),
      detectFromParentProcess(env)>>

\* faulty variant: the test of clientType is missing
StillUnknownAlways(clientType) == TRUE

\* clientType === "unknown"
StillUnknown(clientType) == clientType = "unknown"

\* if (detection.detected && clientType === "unknown") { clientName = ...; }
\* applied to the detections from the k-th on (the first test has no
\* clientType part: clientType is "unknown" there)
RECURSIVE ApplyDetections(_, _, _)
ApplyDetections(client, detections, k) ==
    IF k > Len(detections) THEN client
    ELSE IF detections[k].detected /\ StillUnknown(client.type)
    THEN ApplyDetections(MCPClient(detections[k].name, detections[k].type,
                                   detections[k].confidence), detections, k + 1)
    ELSE ApplyDetections(client, detections, k + 1)

detectClient(env) ==
    ApplyDetections(MCPClient("Unknown", "unknown", "low"), Detections(env), 1)

\* private detectedClient: MCPClient | null = null
Null == MCPClient("null", "null", "null")

\* if (!this.detectedClient) this.detectedClient = this.detectClient()
CachedOrDetect(cached, env) == IF cached = Null THEN detectClient(env) ELSE cached

\* MCPClient.toClientInfo()
toClientInfo(client) ==
    [name |-> client.name, type |-> client.type, confidence |-> client.confidence]

(***************************************************************************)
(* GitHubService: the validation prefix of each operation and the fixed     *)
(* retry parameters.                                                        *)
(***************************************************************************)
UsageOps == {"getCopilotUsageForOrg", "getCopilotUsageForEnterprise"}

BulkOps == {"addCopilotSeatsForUsers", "removeCopilotSeatsForUsers"}

FacadeOps ==
    UsageOps \cup BulkOps \cup {"getCopilotSeatsForOrg", "getCopilotSeatDetails"}

\* retryOperation(..., 3, 1000, ...)
FacadeMaxRetries == 3

FacadeBackoffMs == 1000

\* page = 1
DefaultPage(page) == IF page = Undefined THEN 1 ELSE page

\* faulty variant: per_page = 30
DefaultPerPage30(per_page) == IF per_page = Undefined THEN 30 ELSE per_page

\* per_page = 50
DefaultPerPage(per_page) == IF per_page = Undefined THEN 50 ELSE per_page

Args(org, since, until, page, per_page, usernames, username) ==
    [org |-> org, since |-> since, until |-> until, page |-> page,
     per_page |-> per_page, usernames |-> usernames, username |-> username]

NoArgs == Args(<<>>, UndefStr, UndefStr, Undefined, Undefined, <<>>, <<>>)

\* the first error among the errors of a sequence of checks
RECURSIVE FirstError(_)
FirstError(checks) ==
    IF checks = <<>> THEN NoErr
    ELSE IF Head(checks) # NoErr THEN Head(checks)
    ELSE FirstError(Tail(checks))

\* faulty variant: validateUsername(selected_usernames[0])
validateEachFirstOnly(usernames) ==
    IF Len(usernames) = 0 THEN NoErr ELSE validateUsername(usernames[1])

\* selected_usernames.forEach((username) => validateUsername(username))
validateEach(usernames) ==
    FirstError([i \in 1..Len(usernames) |-> validateUsername(usernames[i])])

\* if (!Array.isArray(selected_usernames) || selected_usernames.length === 0)
\*   throw new Error("selected_usernames must be a non-empty array")
requireNonEmpty(usernames) ==
    IF Len(usernames) = 0
    THEN PlainError("selected_usernames must be a non-empty array", 0)
    ELSE NoErr

\* faulty variant: the check of until is missing
validateUsageArgsWithoutUntil(a) ==
    FirstError(<<validateOrganizationName(a.org),
                 validatePaginationParams(DefaultPage(a.page), DefaultPerPage(a.per_page)),
                 IF Truthy(a.since) THEN validateDateString(a.since, "since") ELSE NoErr>>)

validateUsageArgs(a) ==
    FirstError(<<validateOrganizationName(a.org),
                 validatePaginationParams(DefaultPage(a.page), DefaultPerPage(a.per_page)),
                 IF Truthy(a.since) THEN validateDateString(a.since, "since") ELSE NoErr,
                 IF Truthy(a.until) THEN validateDateString(a.until, "until") ELSE NoErr>>)

validateSeatsArgs(a) ==
    FirstError(<<validateOrganizationName(a.org),
                 validatePaginationParams(DefaultPage(a.page), DefaultPerPage(a.per_page))>>)

validateBulkArgs(a) ==
    FirstError(<<validateOrganizationName(a.org),
                 requireNonEmpty(a.usernames),
                 validateEach(a.usernames)>>)

validateSeatDetailsArgs(a) ==
    FirstError(<<validateOrganizationName(a.org), validateUsername(a.username)>>)

\* the error the synchronous prefix of a facade operation throws, or NoErr
FacadeValidate(op, a) ==
    IF op \in UsageOps THEN validateUsageArgs(a)
    ELSE IF op = "getCopilotSeatsForOrg" THEN validateSeatsArgs(a)
    ELSE IF op \in BulkOps THEN validateBulkArgs(a)
    ELSE validateSeatDetailsArgs(a)

\* the arguments an operation takes; the others stay at their NoArgs value
FacadeArgs(op) ==
    IF op \in UsageOps
    THEN {Args(o, s, u, p, pp, <<>>, <<>>) :
            o \in OrgNames, s \in Dates, u \in Dates, p \in Pages, pp \in PerPages}
    ELSE IF op = "getCopilotSeatsForOrg"
    THEN {Args(o, UndefStr, UndefStr, p, pp, <<>>, <<>>) :
            o \in OrgNames, p \in Pages, pp \in PerPages}
    ELSE IF op \in BulkOps
    THEN {Args(o, UndefStr, UndefStr, Undefined, Undefined, us, <<>>) :
            o \in OrgNames, us \in Batches}
    ELSE {Args(o, UndefStr, UndefStr, Undefined, Undefined, <<>>, n) :
            o \in OrgNames, n \in Usernames}

(***************************************************************************)
(* Outcomes of an async call.                                               *)
(***************************************************************************)
Pending == [kind |-> "pending", val |-> "", err |-> NoErr]

Returned(v) == [kind |-> "value", val |-> v, err |-> NoErr]

Threw(e) == [kind |-> "error", val |-> "", err |-> e]

\* .catch((error) => handleAPIError(error, ...)) applied to the outcome of
\* retryOperation
CatchHandleAPIError(r, t) ==
    IF r.kind = "error" THEN Threw(handleAPIError(r.err, t)) ELSE r

\* the parameters object a facade operation hands to the upstream client
Request(method, org, since, until, page, per_page, usernames, username) ==
    [method |-> method, org |-> org, since |-> since, until |-> until,
     page |-> page, per_page |-> per_page, usernames |-> usernames,
     username |-> username]

\* the upstream call made by the operation closure of a facade operation
UpstreamRequest(op, a) ==
    IF op \in UsageOps
    THEN Request("copilotMetricsForOrganization", a.org, a.since, a.until,
                 DefaultPage(a.page), DefaultPerPage(a.per_page), <<>>, <<>>)
    ELSE IF op = "getCopilotSeatsForOrg"
    THEN Request("listCopilotSeats", a.org, UndefStr, UndefStr,
                 DefaultPage(a.page), DefaultPerPage(a.per_page), <<>>, <<>>)
    ELSE IF op = "addCopilotSeatsForUsers"
    THEN Request("addCopilotSeatsForUsers", a.org, UndefStr, UndefStr,
                 Undefined, Undefined, a.usernames, <<>>)
    ELSE IF op = "removeCopilotSeatsForUsers"
    THEN Request("cancelCopilotSeatAssignmentForUsers", a.org, UndefStr, UndefStr,
                 Undefined, Undefined, a.usernames, <<>>)
    ELSE Request("getCopilotSeatDetailsForUser", a.org, UndefStr, UndefStr,
                 Undefined, Undefined, <<>>, a.username)

(***************************************************************************)
(* The MCP server (src/src/server.ts): executeToolSafely and the tools.     *)
(* Texts are strings; names and dates are sequences of characters.          *)
(***************************************************************************)
\* tool invocations the server handles one after the other
MaxInvocations == 2

\* facade invocations in flight together
MaxConcurrent == 2

\* the characters of a name or date as one string
RECURSIVE Join(_)
Join(chars) == IF chars = <<>> THEN "" ELSE Head(chars) \o Join(Tail(chars))

\* result.data of an upstream response
Data(response) == response \o ".data"

\* JSON.stringify(x, null, 2) and JSON.parse(text) for a string x
JSONStringify(x) == "\"" \o x \o "\""

JSONParse(text) == SubSeq(text, 2, Len(text) - 1)

\* error.retryAfter ? ... : ... for the number handleAPIError computed
TruthyNumber(x) == x # 0 /\ x # NaN

\* `${n}` for a number
NumberText(n) == IF n = NaN THEN "NaN" ELSE ToString(n)

\* faulty variant: the ValidationError branch is missing
SurfacedMessageNoValidation(error) ==
    IF error.cls = "GitHubAPIError"
    THEN IF error.statusCode = 401
         THEN "Authentication failed. Please check your GitHub token or app credentials."
         ELSE IF error.statusCode = 403
         THEN "Access forbidden. Check your permissions for this operation."
         ELSE IF error.statusCode = 404
         THEN "Resource not found. Please check the organization/user name."
         ELSE "GitHub API error: " \o error.msg
    ELSE IF error.cls = "RateLimitError"
    THEN "Rate limit exceeded." \o
         (IF TruthyNumber(error.retryAfter)
          THEN " Please try again in " \o NumberText(error.retryAfter) \o " seconds."
          ELSE " Please try again later.")
    ELSE "Unexpected error: " \o error.msg

\* the message of the Error the catch block of executeToolSafely throws
SurfacedMessage(error) ==
    IF error.cls = "ValidationError"
    THEN "Invalid input: " \o error.msg
    ELSE IF error.cls = "GitHubAPIError"
    THEN IF error.statusCode = 401
         THEN "Authentication failed. Please check your GitHub token or app credentials."
         ELSE IF error.statusCode = 403
         THEN "Access forbidden. Check your permissions for this operation."
         ELSE IF error.statusCode = 404
         THEN "Resource not found. Please check the organization/user name."
         ELSE "GitHub API error: " \o error.msg
    ELSE IF error.cls = "RateLimitError"
    THEN "Rate limit exceeded." \o
         (IF TruthyNumber(error.retryAfter)
          THEN " Please try again in " \o NumberText(error.retryAfter) \o " seconds."
          ELSE " Please try again later.")
    ELSE "Unexpected error: " \o error.msg

\* executeToolSafely(operation, toolName), whose operation settled with r
executeToolSafely(r) ==
    IF r.kind = "value"
    THEN [kind |-> "value", val |-> JSONStringify(Data(r.val)), err |-> NoErr]
    ELSE [kind |-> "error", val |-> "", err |-> PlainError(SurfacedMessage(r.err), r.err.at)]

\* errorMessage.includes("404") || errorMessage.includes("Not Found"), for
\* the error executeToolSafely threw
IsNotFoundMessage(error) == Includes(error.msg, "404") \/ Includes(error.msg, "Not Found")

Tools == {"get_copilot_usage_org", "list_copilot_seats", "add_copilot_seats"}

ToolOperation(tool) ==
    CASE tool = "get_copilot_usage_org" -> "getCopilotUsageForOrg"
      [] tool = "list_copilot_seats" -> "getCopilotSeatsForOrg"
      [] tool = "add_copilot_seats" -> "addCopilotSeatsForUsers"

\* generateDateRangeSuggestions().last30Days, with today = 2024-01-15
Last30DaysSince == <<"2", "0", "2", "3", "-", "1", "2", "-", "1", "6">>

Last30DaysUntil == Date20240115

\* addDefaultDateRange(args)
addDefaultDateRange(a) ==
    IF ~Truthy(a.since) /\ ~Truthy(a.until)
    THEN [a EXCEPT !.since = Last30DaysSince, !.until = Last30DaysUntil]
    ELSE a

\* the arguments a tool is called with, after the defaults of its schema
\* (page 1, per_page 50)
ToolArgs(tool) ==
    IF tool = "get_copilot_usage_org"
    THEN {Args(o, d[1], d[2], 1, pp, <<>>, <<>>) :
            o \in {OctoOrg, <<>>}, pp \in {50, 101},
            d \in {<<UndefStr, UndefStr>>, <<Date20240115, Date20240115>>,
                   <<InvalidDate, UndefStr>>}}
    ELSE IF tool = "list_copilot_seats"
    THEN {Args(OctoOrg, UndefStr, UndefStr, 1, pp, <<>>, <<>>) : pp \in {50, 101}}
    ELSE {Args(OctoOrg, UndefStr, UndefStr, Undefined, Undefined, us, <<>>) :
            us \in {<<>>, <<OkUser>>}}

\* the arguments the tool hands to the operation of the facade
ToolFacadeArgs(tool, a) ==
    IF tool = "get_copilot_usage_org" THEN addDefaultDateRange(a) ELSE a

\* the arguments of the getCopilotSeatsForOrg call of the fallback
FallbackArgs(a) ==
    Args(a.org, UndefStr, UndefStr, a.page, a.per_page, <<>>, <<>>)

FallbackNote ==
    "Usage metrics not available for this organization. Showing seat information instead."

\* what get_copilot_usage_org returns after the fallback
FallbackText(a, seatsData) ==
    "{note: " \o JSONStringify(FallbackNote)
    \o ", organization: " \o JSONStringify(Join(a.org))
    \o ", requested_period: "
    \o JSONStringify(IF Truthy(a.since) /\ Truthy(a.until)
                     THEN Join(a.since) \o " to " \o Join(a.until)
                     ELSE "Last 30 days (not available)")
    \o ", seats_data: " \o JSONStringify(JSONParse(seatsData)) \o "}"

Header404 == <<"4", "0", "4">>

\* what an upstream call made for a tool may reject with
ToolUpstreamFailures(at) ==
    {UpstreamError(401, "headers", UndefStr, "Bad credentials", at),
     UpstreamError(403, "headers", UndefStr, "Forbidden", at),
     UpstreamError(403, "headers", Header60, "rate limit", at),
     UpstreamError(403, "headers", Header404, "rate limit", at),
     UpstreamError(404, "headers", UndefStr, "Not Found", at),
     UpstreamError(500, "headers", UndefStr, "Server Error", at),
     UpstreamError(Undefined, "none", UndefStr, "connect ENOTFOUND: Not Found", at)}

(***************************************************************************)
(* State.                                                                   *)
(***************************************************************************)
VARIABLES
    pc,           \* "idle", "awaitOp" (await operation()), "sleep" (await of the backoff timer), "done"
    caller,       \* "none", "direct" (retryOperation called directly) or the facade operation
    args,         \* the arguments of the facade operation
    maxRetries,   \* parameter of retryOperation
    backoffMs,    \* parameter of retryOperation
    attempt,      \* loop variable of retryOperation
    lastError,    \* local variable of retryOperation
    calls,        \* number of invocations of operation() so far
    inflight,     \* attempts whose operation() promise has not settled
    timers,       \* delays of the pending setTimeout timers
    outcomes,     \* outcomes[k]: how the invocation of attempt k settled
    sleeps,       \* delays of the backoff suspensions that have elapsed
    result,       \* outcome of the called function of error-handling (of retryOperation in a facade call)
    facadeResult, \* outcome of the facade operation
    requests,     \* the upstream calls a facade operation has made
    apiError,     \* the error handed to handleAPIError
    now,          \* the value of Date.now() read by handleAPIError
    config,       \* the GitHubConfig handed to the GitHubService constructor
    auth,         \* how the Octokit of the GitHubService authenticates
    logEnv,       \* process.env.LOG_LEVEL when the Logger is constructed
    logLevel,     \* Logger.logLevel
    logCall,      \* the level of the record handed to Logger.log
    logged,       \* the entries Logger.log has written
    environment,  \* what the detectors of MCPClientDetector read
    detectedClient, \* MCPClientDetector.detectedClient
    returns,      \* what getClient / getClientInfo returned, with the environment at the call
    tool,         \* the tool of the current (or last) invocation
    toolArgs,     \* its arguments, defaults applied
    stage,        \* "idle", or the executeToolSafely run in progress: "primary" / "fallback"
    runs,         \* the executeToolSafely runs of the invocation: what the operation
                  \* settled with, the upstream error classified, what was surfaced
    toolResult,   \* what execute settled with
    served,       \* number of tool invocations that have settled
    failedBefore, \* an invocation before the current one failed
    inv           \* the facade invocations in flight together: for each, the
                  \* position, arguments and locals of its own pipeline

\* the state of retryOperation, of the validators, of handleAPIError and of
\* one facade call
coreVars == <<pc, caller, args, maxRetries, backoffMs, attempt, lastError, calls,
              inflight, timers, outcomes, sleeps, result, facadeResult, requests,
              apiError, now>>

constructorVars == <<config, auth>>

loggerVars == <<logEnv, logLevel, logCall, logged>>

detectorVars == <<environment, detectedClient, returns>>

serverVars == <<tool, toolArgs, stage, runs, toolResult, served, failedBefore>>

concurrentVars == <<inv>>

\* the state of the other components
extVars == <<constructorVars, loggerVars, detectorVars, serverVars, concurrentVars>>

vars == <<coreVars, extVars>>

\* what the settlement of a call writes
settleVars == <<result, facadeResult, apiError, now>>

CoreInit ==
    /\ pc = "idle"
    /\ caller = "none"
    /\ args = NoArgs
    /\ maxRetries = 0
    /\ backoffMs = 0
    /\ attempt = 0
    /\ lastError = NoErr
    /\ calls = 0
    /\ inflight = {}
    /\ timers = {}
    /\ outcomes = <<>>
    /\ sleeps = <<>>
    /\ result = Pending
    /\ facadeResult = Pending
    /\ requests = <<>>
    /\ apiError = NoErr
    /\ now = 0

ConstructorInit ==
    /\ config = NoConfig
    /\ auth = "none"

LoggerInit ==
    /\ logEnv = EnvUnset
    /\ logLevel = "none"
    /\ logCall = "none"
    /\ logged = <<>>

\* no call of the detector yet
DetectorFresh ==
    /\ detectedClient = Null
    /\ returns = <<>>

DetectorInit ==
    /\ environment = QuietEnvironment
    /\ DetectorFresh

ServerInit ==
    /\ tool = "none"
    /\ toolArgs = NoArgs
    /\ stage = "idle"
    /\ runs = <<>>
    /\ toolResult = Pending
    /\ served = 0
    /\ failedBefore = FALSE

\* a facade invocation that has not been made yet
NotCalled ==
    [pc |-> "idle", op |-> "none", args |-> NoArgs, attempt |-> 0,
     lastError |-> NoErr, calls |-> 0, timers |-> {}, outcomes |-> <<>>,
     sleeps |-> <<>>, result |-> Pending]

ConcurrentInit == inv = [i \in 1..MaxConcurrent |-> NotCalled]

Init ==
    /\ CoreInit
    /\ ConstructorInit
    /\ LoggerInit
    /\ DetectorInit
    /\ ServerInit
    /\ ConcurrentInit

(***************************************************************************)
(* Steps of retryOperation.                                                 *)
(***************************************************************************)
\* retryOperation settles with r; a facade caller's .catch handler runs on it
Settle(r, c) ==
    /\ pc' = "done"
    /\ result' = r
    /\ IF c \in FacadeOps /\ r.kind = "error"
       THEN /\ apiError' = r.err
            /\ \E t \in (IF ReadsClock(r.err) THEN Nows ELSE {now}) :
                  /\ now' = t
                  /\ facadeResult' = CatchHandleAPIError(r, t)
       ELSE /\ facadeResult' = IF c \in FacadeOps THEN r ELSE facadeResult
            /\ UNCHANGED <<apiError, now>>

\* the head of the for loop with attempt = a: either the body runs up to
\* `await operation()`, or the loop is left and `throw lastError` runs
\* operation() is invoked by caller c whose arguments are ag
Invoke(c, ag) ==
    /\ calls' = calls + 1
    /\ requests' = IF c \in FacadeOps
                   THEN Append(requests, UpstreamRequest(c, ag))
                   ELSE requests

LoopHead(a, m, last, c, ag) ==
    /\ attempt' = a
    /\ IF LoopCondition(a, m)
       THEN /\ Invoke(c, ag)
            /\ inflight' = inflight \cup {a}
            /\ pc' = "awaitOp"
            /\ UNCHANGED settleVars
       ELSE /\ Settle(Threw(last), c)
            /\ UNCHANGED <<calls, requests, inflight>>

\* the synchronous prefix of retryOperation(operation, m, b)
Enter(m, b, c, ag) ==
    /\ maxRetries' = m
    /\ backoffMs' = b
    /\ lastError' = InitialLastError
    /\ LoopHead(1, m, InitialLastError, c, ag)
    /\ UNCHANGED <<timers, outcomes, sleeps>>

\* a direct call retryOperation(operation, m, b)
retryOperation(m, b) ==
    /\ pc = "idle"
    /\ caller' = "direct"
    /\ args' = NoArgs
    /\ Enter(m, b, "direct", NoArgs)

\* a call of a facade operation: validation, then retryOperation(..., 3, 1000)
FacadeCall(op, a) ==
    /\ pc = "idle"
    /\ caller' = op
    /\ args' = a
    /\ IF FacadeValidate(op, a) # NoErr
       THEN /\ pc' = "done"
            /\ facadeResult' = Threw(FacadeValidate(op, a))
            /\ UNCHANGED <<maxRetries, backoffMs, attempt, lastError, calls,
                           requests, inflight, timers, outcomes, sleeps,
                           result, apiError, now>>
       ELSE Enter(FacadeMaxRetries, FacadeBackoffMs, op, a)

\* what operation() may reject with at attempt a
Failures(c, a) == IF c = "direct" THEN OperationFailures(a) ELSE UpstreamFailures(a)

\* faulty variant: the value is kept but the loop goes on (no return)
OperationResolvesKeepsLooping(v) ==
    /\ pc = "awaitOp"
    /\ outcomes' = Append(outcomes, Returned(v))
    /\ IF Exhausted(attempt, maxRetries)
       THEN /\ Settle(Returned(v), caller)
            /\ inflight' = inflight \ {attempt}
            /\ UNCHANGED <<attempt, calls, requests>>
       ELSE /\ pc' = "awaitOp"
            /\ attempt' = NextAttempt(attempt)
            /\ Invoke(caller, args)
            /\ inflight' = {NextAttempt(attempt)}
            /\ UNCHANGED settleVars
    /\ UNCHANGED <<caller, args, maxRetries, backoffMs, lastError, timers, sleeps>>

\* operation() resolves with v: return await operation()
OperationResolves(v) ==
    /\ pc = "awaitOp"
    /\ inflight' = inflight \ {attempt}
    /\ outcomes' = Append(outcomes, Returned(v))
    /\ Settle(Returned(v), caller)
    /\ UNCHANGED <<caller, args, maxRetries, backoffMs, attempt, lastError,
                   calls, requests, timers, sleeps>>

\* faulty variant: the promise of the backoff never resolves (setTimeout is not
\* handed resolve), so the loop is never resumed
OperationRejectsLostTimer(error) ==
    /\ pc = "awaitOp"
    /\ inflight' = inflight \ {attempt}
    /\ outcomes' = Append(outcomes, Threw(error))
    /\ lastError' = ToLastError(error)
    /\ IF Exhausted(attempt, maxRetries)
       THEN Settle(Threw(ToLastError(error)), caller)
       ELSE IF NonRetryable(error)
       THEN Settle(Threw(error), caller)
       ELSE /\ pc' = "sleep"
            /\ UNCHANGED settleVars
    /\ UNCHANGED <<caller, args, maxRetries, backoffMs, attempt, calls, requests,
                   sleeps, timers>>

\* faulty variant: the backoff promise is not awaited: the timer is set and the next
\* attempt is invoked at once
OperationRejectsNoAwait(error) ==
    /\ pc = "awaitOp"
    /\ outcomes' = Append(outcomes, Threw(error))
    /\ lastError' = ToLastError(error)
    /\ IF Exhausted(attempt, maxRetries)
       THEN /\ Settle(Threw(ToLastError(error)), caller)
            /\ inflight' = inflight \ {attempt}
            /\ UNCHANGED <<timers, attempt, calls, requests>>
       ELSE IF NonRetryable(error)
       THEN /\ Settle(Threw(error), caller)
            /\ inflight' = inflight \ {attempt}
            /\ UNCHANGED <<timers, attempt, calls, requests>>
       ELSE /\ timers' = timers \cup {BackoffDelay(backoffMs, attempt)}
            /\ pc' = "awaitOp"
            /\ attempt' = NextAttempt(attempt)
            /\ Invoke(caller, args)
            /\ inflight' = {NextAttempt(attempt)}
            /\ UNCHANGED settleVars
    /\ UNCHANGED <<caller, args, maxRetries, backoffMs, sleeps>>

\* operation() rejects with error: the catch block
OperationRejects(error) ==
    /\ pc = "awaitOp"
    /\ inflight' = inflight \ {attempt}
    /\ outcomes' = Append(outcomes, Threw(error))
    /\ lastError' = ToLastError(error)
    /\ IF Exhausted(attempt, maxRetries)
       THEN /\ Settle(Threw(ToLastError(error)), caller)
            /\ UNCHANGED timers
       ELSE IF NonRetryable(error)
       THEN /\ Settle(Threw(error), caller)
            /\ UNCHANGED timers
       ELSE /\ timers' = timers \cup {BackoffDelay(backoffMs, attempt)}
            /\ pc' = "sleep"
            /\ UNCHANGED settleVars
    /\ UNCHANGED <<caller, args, maxRetries, backoffMs, attempt, calls, requests,
                   sleeps>>

\* the backoff timer fires: attempt++ and the next iteration
TimerFires(delay) ==
    /\ pc = "sleep"
    /\ delay \in timers
    /\ timers' = timers \ {delay}
    /\ sleeps' = Append(sleeps, delay)
    /\ LoopHead(NextAttempt(attempt), maxRetries, lastError, caller, args)
    /\ UNCHANGED <<caller, args, maxRetries, backoffMs, lastError, outcomes>>

(***************************************************************************)
(* Direct calls of the validators and of handleAPIError.                    *)
(***************************************************************************)
\* the outcome of a validator: it throws e, or returns undefined
ValidatorOutcome(e) == IF e = NoErr THEN Returned("undefined") ELSE Threw(e)

\* a synchronous function called by c with arguments ag settles with r
Finish(c, ag, r) ==
    /\ pc' = "done"
    /\ caller' = c
    /\ args' = ag
    /\ result' = r
    /\ UNCHANGED <<maxRetries, backoffMs, attempt, lastError, calls, inflight,
                   timers, outcomes, sleeps, facadeResult, requests>>

CallValidateOrganizationName ==
    /\ pc = "idle"
    /\ UNCHANGED extVars
    /\ \E name \in NameInputs :
          Finish("validateOrganizationName", [NoArgs EXCEPT !.org = name],
                 ValidatorOutcome(validateOrganizationName(name)))
    /\ UNCHANGED <<apiError, now>>

CallValidateUsername ==
    /\ pc = "idle"
    /\ UNCHANGED extVars
    /\ \E name \in NameInputs :
          Finish("validateUsername", [NoArgs EXCEPT !.username = name],
                 ValidatorOutcome(validateUsername(name)))
    /\ UNCHANGED <<apiError, now>>

CallValidateDateString ==
    /\ pc = "idle"
    /\ UNCHANGED extVars
    /\ \E date \in DateInputs, fieldName \in DateFields :
          Finish("validateDateString", [NoArgs EXCEPT ![fieldName] = date],
                 ValidatorOutcome(validateDateString(date, fieldName)))
    /\ UNCHANGED <<apiError, now>>

CallValidatePaginationParams ==
    /\ pc = "idle"
    /\ UNCHANGED extVars
    /\ \E page \in PageInputs, per_page \in PerPageInputs :
          Finish("validatePaginationParams",
                 [NoArgs EXCEPT !.page = page, !.per_page = per_page],
                 ValidatorOutcome(validatePaginationParams(page, per_page)))
    /\ UNCHANGED <<apiError, now>>

CallHandleAPIError ==
    /\ pc = "idle"
    /\ UNCHANGED extVars
    /\ \E error \in ClassifierInputs :
          \E t \in (IF ReadsClock(error) THEN Nows ELSE {now}) :
              /\ apiError' = error
              /\ now' = t
              /\ Finish("handleAPIError", NoArgs, Threw(handleAPIError(error, t)))

\* new GitHubService(c)
CallConstructor ==
    /\ pc = "idle"
    /\ \E c \in Configs :
          /\ config' = c
          /\ auth' = ConstructorAuth(c)
          /\ Finish("GitHubService", NoArgs,
                    IF ConstructorError(c) = NoErr THEN Returned("GitHubService")
                    ELSE Threw(ConstructorError(c)))
    /\ UNCHANGED <<apiError, now, loggerVars, detectorVars, serverVars, concurrentVars>>

\* a Logger constructed under LOG_LEVEL = env is handed a record of a level
CallLog ==
    /\ pc = "idle"
    /\ \E env \in LogLevelSettings, level \in LogLevels :
          /\ logEnv' = env
          /\ logLevel' = LoggerLevel(env)
          /\ logCall' = level
          /\ logged' = logged \o Log(level, "message", LoggerLevel(env))
          /\ Finish("Logger.log", NoArgs, Returned("undefined"))
    /\ UNCHANGED <<apiError, now, constructorVars, detectorVars, serverVars, concurrentVars>>

CallDirect ==
    /\ pc = "idle"
    /\ UNCHANGED extVars
    /\ \E m \in RetryBudgets, b \in Backoffs : retryOperation(m, b)

CallFacade ==
    /\ pc = "idle"
    /\ UNCHANGED extVars
    /\ \E op \in FacadeOps : \E a \in FacadeArgs(op) : FacadeCall(op, a)

Resolve ==
    /\ pc = "awaitOp"
    /\ UNCHANGED extVars
    /\ \E v \in Values : OperationResolves(v)

Reject ==
    /\ pc = "awaitOp"
    /\ UNCHANGED extVars
    /\ \E error \in Failures(caller, attempt) : OperationRejects(error)

Timer ==
    /\ pc = "sleep"
    /\ UNCHANGED extVars
    /\ \E delay \in timers : TimerFires(delay)

Next ==
    \/ CallDirect
    \/ CallFacade
    \/ CallValidateOrganizationName
    \/ CallValidateUsername
    \/ CallValidateDateString
    \/ CallValidatePaginationParams
    \/ CallHandleAPIError
    \/ CallConstructor
    \/ CallLog
    \/ Resolve
    \/ Reject
    \/ Timer

Spec == Init /\ [][Next]_vars

\* every invocation of the operation settles and every backoff timer fires
FairSpec == Spec /\ WF_vars(Resolve \/ Reject) /\ WF_vars(Timer)

(***************************************************************************)
(* MCPClientDetector: calls of getClient and getClientInfo on the one       *)
(* instance, with the environment changing between them.                    *)
(***************************************************************************)
\* what a call returns, and the environment it was made in
Return(method, value, env) == [method |-> method, value |-> value, env |-> env]

\* getClient()
GetClient ==
    /\ Len(returns) < MaxGetCalls
    /\ detectedClient' = CachedOrDetect(detectedClient, environment)
    /\ returns' = Append(returns, Return("getClient", detectedClient', environment))
    /\ UNCHANGED <<coreVars, constructorVars, loggerVars, serverVars, concurrentVars,
                   environment>>

\* getClientInfo()
GetClientInfo ==
    /\ Len(returns) < MaxGetCalls
    /\ detectedClient' = CachedOrDetect(detectedClient, environment)
    /\ returns' = Append(returns, Return("getClientInfo",
                                         toClientInfo(detectedClient'), environment))
    /\ UNCHANGED <<coreVars, constructorVars, loggerVars, serverVars, concurrentVars,
                   environment>>

\* one thing the detectors read changes, once, after the first call
EnvironmentChanges ==
    /\ Len(returns) = 1
    /\ environment = returns[1].env
    /\ \E env \in Environments :
          /\ env # environment
          /\ \/ /\ env.vscodeVars # environment.vscodeVars
                /\ env = [environment EXCEPT !.vscodeVars = env.vscodeVars]
             \/ /\ env.clientVars # environment.clientVars
                /\ env = [environment EXCEPT !.clientVars = env.clientVars]
             \/ /\ env.title # environment.title
                /\ env = [environment EXCEPT !.title = env.title]
             \/ /\ env.argv # environment.argv
                /\ env = [environment EXCEPT !.argv = env.argv]
             \/ /\ env.parent # environment.parent
                /\ env = [environment EXCEPT !.parent = env.parent]
          /\ environment' = env
    /\ UNCHANGED <<coreVars, constructorVars, loggerVars, serverVars, concurrentVars,
                   detectedClient, returns>>

DetectorSpecInit ==
    /\ CoreInit
    /\ ConstructorInit
    /\ LoggerInit
    /\ ServerInit
    /\ ConcurrentInit
    /\ environment \in Environments
    /\ DetectorFresh

DetectorNext ==
    \/ GetClient
    \/ GetClientInfo
    \/ EnvironmentChanges

DetectorSpec == DetectorSpecInit /\ [][DetectorNext]_vars

(***************************************************************************)
(* The MCP server: tool invocations handled one after the other.  The call  *)
(* of the facade made for a tool starts with fresh locals; the steps of its *)
(* retry loop are those of retryOperation above.                            *)
(***************************************************************************)
\* a facade operation is called while no other call is in progress: its
\* validation, then retryOperation(..., 3, 1000) up to the first await
FreshFacadeCall(op, a) ==
    /\ caller' = op
    /\ args' = a
    /\ timers' = {}
    /\ outcomes' = <<>>
    /\ sleeps' = <<>>
    /\ result' = Pending
    /\ apiError' = NoErr
    /\ UNCHANGED now
    /\ IF FacadeValidate(op, a) # NoErr
       THEN /\ pc' = "done"
            /\ facadeResult' = Threw(FacadeValidate(op, a))
            /\ maxRetries' = 0
            /\ backoffMs' = 0
            /\ attempt' = 0
            /\ lastError' = NoErr
            /\ calls' = 0
            /\ requests' = <<>>
            /\ inflight' = {}
       ELSE /\ maxRetries' = FacadeMaxRetries
            /\ backoffMs' = FacadeBackoffMs
            /\ lastError' = InitialLastError
            /\ attempt' = 1
            /\ facadeResult' = IF LoopCondition(1, FacadeMaxRetries) THEN Pending
                               ELSE Threw(InitialLastError)
            /\ pc' = IF LoopCondition(1, FacadeMaxRetries) THEN "awaitOp" ELSE "done"
            /\ calls' = IF LoopCondition(1, FacadeMaxRetries) THEN 1 ELSE 0
            /\ requests' = IF LoopCondition(1, FacadeMaxRetries)
                           THEN <<UpstreamRequest(op, a)>> ELSE <<>>
            /\ inflight' = IF LoopCondition(1, FacadeMaxRetries) THEN {1} ELSE {}

\* one run of executeToolSafely: what the operation settled with, the
\* upstream error that was classified (NoErr when none) and what the run
\* settles with
Run(outcome, upstream) ==
    [outcome |-> outcome, upstream |-> upstream, surfaced |-> executeToolSafely(outcome)]

\* the tool's execute function is called
ToolInvoke ==
    /\ stage = "idle"
    /\ served < MaxInvocations
    /\ \E t \in Tools : \E a \in ToolArgs(t) :
          /\ tool' = t
          /\ toolArgs' = ToolFacadeArgs(t, a)
          /\ FreshFacadeCall(ToolOperation(t), ToolFacadeArgs(t, a))
    /\ stage' = "primary"
    /\ runs' = <<>>
    /\ toolResult' = Pending
    /\ failedBefore' = (failedBefore \/ toolResult.kind = "error")
    /\ UNCHANGED <<served, constructorVars, loggerVars, detectorVars, concurrentVars>>

\* execute settles with r
ToolSettles(r) ==
    /\ stage' = "idle"
    /\ toolResult' = r
    /\ served' = served + 1
    /\ UNCHANGED <<coreVars, tool, toolArgs, failedBefore>>

\* the operation handed to executeToolSafely has settled: the rest of
\* executeToolSafely and of the execute function that awaits it
ToolContinues ==
    /\ stage \in {"primary", "fallback"}
    /\ pc = "done"
    /\ LET run == Run(facadeResult, apiError)
       IN  /\ runs' = Append(runs, run)
           /\ IF run.surfaced.kind = "value"
              THEN ToolSettles(IF stage = "fallback"
                               THEN Returned(FallbackText(toolArgs, run.surfaced.val))
                               ELSE Returned(run.surfaced.val))
              ELSE IF /\ tool = "get_copilot_usage_org"
                      /\ stage = "primary"
                      /\ IsNotFoundMessage(run.surfaced.err)
              THEN /\ stage' = "fallback"
                   /\ FreshFacadeCall("getCopilotSeatsForOrg", FallbackArgs(toolArgs))
                   /\ UNCHANGED <<tool, toolArgs, toolResult, served, failedBefore>>
              ELSE ToolSettles(Threw(run.surfaced.err))
    /\ UNCHANGED <<constructorVars, loggerVars, detectorVars, concurrentVars>>

\* an upstream call made for a tool rejects
ToolReject ==
    /\ pc = "awaitOp"
    /\ UNCHANGED extVars
    /\ \E error \in ToolUpstreamFailures(attempt) : OperationRejects(error)

ServerNext ==
    \/ ToolInvoke
    \/ ToolContinues
    \/ Resolve
    \/ ToolReject
    \/ Timer

ServerSpec == Init /\ [][ServerNext]_vars

(***************************************************************************)
(* Concurrent facade invocations (Promise.all over getCopilotSeatDetails    *)
(* calls): each invocation is a call of the async function with its own     *)
(* locals, and their run-to-completion steps interleave.                    *)
(***************************************************************************)
\* the operation and the arguments of the concurrent invocations
ConcurrentOp == "getCopilotSeatDetails"

ConcurrentArgs ==
    {Args(OctoOrg, UndefStr, UndefStr, Undefined, Undefined, <<>>, n) :
        n \in {OkUser, BadUserBad}}

\* what an upstream call of one of the invocations may reject with
ConcurrentFailures(at) ==
    {UpstreamError(404, "headers", UndefStr, "Not Found", at),
     UpstreamError(500, "headers", UndefStr, "Server Error", at)}

\* faulty variant: `let attempt` is declared outside retryOperation, and is
\* the counter of the first invocation
AttemptShared(state, i) == state[1].attempt

\* the loop counter of invocation i: `let attempt = 1` inside retryOperation
Attempt(state, i) == state[i].attempt

\* invocation r settles with outcome o; .catch(handleAPIError) runs on it
SettleLocal(r, o) ==
    [r EXCEPT !.pc = "done", !.result = CatchHandleAPIError(o, now)]

\* the head of the for loop of invocation r with attempt = a
LoopHeadLocal(r, a) ==
    IF LoopCondition(a, FacadeMaxRetries)
    THEN [r EXCEPT !.attempt = a, !.calls = @ + 1, !.pc = "awaitOp"]
    ELSE SettleLocal([r EXCEPT !.attempt = a], Threw(r.lastError))

\* invocation i is made: validation, then retryOperation up to the first await
ConcurrentCall(i) ==
    /\ inv[i].pc = "idle"
    /\ \E a \in ConcurrentArgs :
          inv' = [inv EXCEPT ![i] =
                    IF FacadeValidate(ConcurrentOp, a) # NoErr
                    THEN [@ EXCEPT !.op = ConcurrentOp, !.args = a, !.pc = "done",
                                   !.result = Threw(FacadeValidate(ConcurrentOp, a))]
                    ELSE LoopHeadLocal([@ EXCEPT !.op = ConcurrentOp, !.args = a,
                                                 !.lastError = InitialLastError], 1)]
    /\ UNCHANGED <<coreVars, constructorVars, loggerVars, detectorVars, serverVars>>

\* the upstream call of invocation i resolves
ConcurrentResolve(i) ==
    /\ inv[i].pc = "awaitOp"
    /\ \E v \in Values :
          inv' = [inv EXCEPT ![i] =
                    SettleLocal([@ EXCEPT !.outcomes = Append(@, Returned(v))],
                                Returned(v))]
    /\ UNCHANGED <<coreVars, constructorVars, loggerVars, detectorVars, serverVars>>

\* the upstream call of invocation i rejects: the catch block
ConcurrentReject(i) ==
    /\ inv[i].pc = "awaitOp"
    /\ \E error \in ConcurrentFailures(Attempt(inv, i)) :
          LET r == [inv[i] EXCEPT !.outcomes = Append(@, Threw(error)),
                                  !.lastError = ToLastError(error)]
          IN  inv' = [inv EXCEPT ![i] =
                        IF Exhausted(Attempt(inv, i), FacadeMaxRetries)
                        THEN SettleLocal(r, Threw(ToLastError(error)))
                        ELSE IF NonRetryable(error)
                        THEN SettleLocal(r, Threw(error))
                        ELSE [r EXCEPT
                                !.timers = @ \cup {BackoffDelay(FacadeBackoffMs, Attempt(inv, i))},
                                !.pc = "sleep"]]
    /\ UNCHANGED <<coreVars, constructorVars, loggerVars, detectorVars, serverVars>>

\* the backoff timer of invocation i fires
ConcurrentTimer(i) ==
    /\ inv[i].pc = "sleep"
    /\ \E delay \in inv[i].timers :
          inv' = [inv EXCEPT ![i] =
                    LoopHeadLocal([@ EXCEPT !.timers = @ \ {delay},
                                            !.sleeps = Append(@, delay)],
                                  NextAttempt(Attempt(inv, i)))]
    /\ UNCHANGED <<coreVars, constructorVars, loggerVars, detectorVars, serverVars>>

\* a step of invocation i
ConcurrentStep(i) ==
    \/ ConcurrentCall(i)
    \/ ConcurrentResolve(i)
    \/ ConcurrentReject(i)
    \/ ConcurrentTimer(i)

ConcurrentNext == \E i \in 1..MaxConcurrent : ConcurrentStep(i)

ConcurrentSpec == Init /\ [][ConcurrentNext]_vars

(***************************************************************************)
(* Properties.                                                              *)
(***************************************************************************)
RECURSIVE SumSeq(_)
SumSeq(q) == IF q = <<>> THEN 0 ELSE Head(q) + SumSeq(Tail(q))

\* the failures the retry loop is specified not to retry
IsNonTransient(e) ==
    \/ e.cls = "ValidationError"
    \/ e.cls = "GitHubAPIError" /\ e.statusCode \in {401, 404}

\* attempt k of the current retryOperation call has failed
FailedAt(k) == k \in 1..Len(outcomes) /\ outcomes[k].kind = "error"

\* C1: for maxRetries >= 1 the attempt counter stays within 1..maxRetries,
\* the operation is invoked at most maxRetries times, and retryOperation
\* ends only by returning the value of a successful attempt or by raising an
\* error.
C1_AttemptWithinBudget ==
    maxRetries >= 1 =>
        /\ attempt \in 1..maxRetries
        /\ calls \in 1..maxRetries
        /\ calls = attempt
        /\ pc \in {"awaitOp", "sleep", "done"}
        /\ pc = "done" =>
              \/ /\ result.kind = "value"
                 /\ outcomes[Len(outcomes)].kind = "value"
              \/ /\ result.kind = "error"
                 /\ result.err # NoErr
                 /\ outcomes[Len(outcomes)].kind = "error"

C1_Witness ==
    /\ pc = "done"
    /\ caller = "direct"
    /\ maxRetries >= 3
    /\ attempt = maxRetries
    /\ calls = maxRetries
    /\ result.kind = "error"

\* C2: a failure at attempt k < maxRetries with a ValidationError or a
\* GitHubAPIError 401/404 is re-raised as it is, at once: the operation has
\* been invoked exactly k times, no backoff timer is set after it and no
\* later attempt is made.
C2_NonTransientRaisedAtOnce ==
    \A k \in 1..Len(outcomes) :
        (FailedAt(k) /\ k < maxRetries /\ IsNonTransient(outcomes[k].err)) =>
            /\ pc = "done"
            /\ result = Threw(outcomes[k].err)
            /\ Len(outcomes) = k
            /\ calls = k
            /\ Len(sleeps) = k - 1
            /\ timers = {}
            /\ inflight = {}

C2_Witness ==
    /\ pc = "done"
    /\ caller = "direct"
    /\ maxRetries = 3
    /\ calls = 2
    /\ result.kind = "error"
    /\ result.err.cls = "GitHubAPIError"
    /\ result.err.statusCode = 404
    /\ Len(sleeps) = 1

\* the upstream failures whose classification is Unauthorized or NotFound
IsNonRetryableUpstream(e) == e.status \in {401, 404}

\* C3: in a facade operation an upstream 401 or 404 is surfaced as its
\* classified error after a single upstream call and without backoff, and
\* the other upstream failures are surfaced only after 3 attempts.
C3_FacadeSurfacesNonRetryableAtOnce ==
    caller \in FacadeOps =>
        /\ (FailedAt(1) /\ IsNonRetryableUpstream(outcomes[1].err)) =>
              /\ pc = "done"
              /\ calls = 1
              /\ sleeps = <<>>
              /\ timers = {}
              /\ facadeResult = Threw(handleAPIError(outcomes[1].err, now))
        /\ (pc = "done" /\ calls >= 1 /\ facadeResult.kind = "error"
              /\ ~IsNonRetryableUpstream(outcomes[Len(outcomes)].err)) =>
              calls = FacadeMaxRetries

\* C4: a failure at attempt k < maxRetries that is neither a ValidationError
\* nor a GitHubAPIError 401/404 is followed by a suspension of exactly
\* backoffMs * 2^(k-1) ms and then by attempt k+1; two server errors
\* followed by a success return the value after backoffMs + 2*backoffMs.
C4_ExponentialBackoff ==
    /\ \A k \in 1..Len(outcomes) :
          (FailedAt(k) /\ k < maxRetries /\ ~IsNonTransient(outcomes[k].err)) =>
              \/ /\ pc = "sleep"
                 /\ Len(outcomes) = k
                 /\ Len(sleeps) = k - 1
                 /\ timers = {backoffMs * 2^(k - 1)}
                 /\ calls = k
              \/ /\ Len(sleeps) >= k
                 /\ sleeps[k] = backoffMs * 2^(k - 1)
                 /\ calls >= k + 1
                 /\ attempt >= k + 1
    /\ (/\ pc = "done"
        /\ Len(outcomes) = 3
        /\ FailedAt(1) /\ outcomes[1].err.statusCode = 500
        /\ FailedAt(2) /\ outcomes[2].err.statusCode = 500
        /\ outcomes[3].kind = "value") =>
            /\ result = Returned(outcomes[3].val)
            /\ SumSeq(sleeps) = backoffMs + 2 * backoffMs

C4_Witness ==
    /\ pc = "done"
    /\ caller = "direct"
    /\ backoffMs = 1000
    /\ Len(outcomes) = 3
    /\ outcomes[1].err.statusCode = 500
    /\ outcomes[2].err.statusCode = 500
    /\ result = Returned("v1")
    /\ sleeps = <<1000, 2000>>

\* C5: when attempt k succeeds retryOperation returns exactly the value of
\* that attempt, and no invocation and no suspension follows the success.
C5_SuccessReturnsAtOnce ==
    \A k \in 1..Len(outcomes) :
        outcomes[k].kind = "value" =>
            /\ pc = "done"
            /\ result = Returned(outcomes[k].val)
            /\ Len(outcomes) = k
            /\ calls = k
            /\ Len(sleeps) = k - 1
            /\ timers = {}
            /\ inflight = {}

C5_Witness ==
    /\ pc = "done"
    /\ caller = "direct"
    /\ maxRetries = 3
    /\ calls = 2
    /\ result = Returned("v2")

\* every attempt of the budget has failed
AllAttemptsFailed ==
    /\ maxRetries >= 1
    /\ Len(outcomes) = maxRetries
    /\ \A k \in 1..maxRetries : FailedAt(k)

\* C6: when all maxRetries attempts fail retryOperation raises the error of
\* the final attempt (a thrown value that is not an Error as the Error made
\* of it at that attempt), never the error of an earlier attempt and never
\* the placeholder error.
C6_RaisesFinalError ==
    AllAttemptsFailed =>
        LET thrown == outcomes[maxRetries].err
        IN  /\ pc = "done"
            /\ result.kind = "error"
            /\ result.err.at = maxRetries
            /\ result.err.msg = thrown.msg
            /\ result.err # InitialLastError
            /\ thrown.cls # "NonError" => result.err = thrown

C6_Witness ==
    /\ AllAttemptsFailed
    /\ caller = "direct"
    /\ maxRetries = 3
    /\ outcomes[1].err.cls = "RateLimitError"
    /\ outcomes[2].err.cls = "Error"
    /\ result.err.cls = "GitHubAPIError"
    /\ result.err.statusCode = 404

\* C7: when every invocation of the operation settles and every backoff
\* timer fires, a retryOperation call that has started eventually settles.
C7_EventuallySettles == (pc \in {"awaitOp", "sleep"}) ~> (pc = "done" /\ result # Pending)

C7_Witness ==
    /\ pc = "done"
    /\ caller = "direct"
    /\ maxRetries >= 3
    /\ Len(sleeps) = maxRetries - 1
    /\ result # Pending

\* C8: at most one invocation of the operation is in flight; attempt k+1 is
\* invoked only when attempts 1..k have failed and the k backoff
\* suspensions have elapsed, and no invocation is in flight during a
\* suspension.
C8_OneAttemptAtATime ==
    /\ Cardinality(inflight) <= 1
    /\ calls = Len(outcomes) + Cardinality(inflight)
    /\ pc = "awaitOp" =>
          /\ inflight = {attempt}
          /\ timers = {}
          /\ Len(outcomes) = attempt - 1
          /\ Len(sleeps) = attempt - 1
          /\ \A k \in 1..(attempt - 1) : FailedAt(k)
    /\ pc = "sleep" =>
          /\ inflight = {}
          /\ Cardinality(timers) = 1

C8_Witness ==
    /\ pc = "awaitOp"
    /\ caller = "direct"
    /\ attempt = 3
    /\ inflight = {3}
    /\ Len(sleeps) = 2

\* a validator that applies to the arguments of the facade operation rejects
SomeValidatorRejects(op, a) ==
    \/ validateOrganizationName(a.org) # NoErr
    \/ /\ op \in UsageOps \cup {"getCopilotSeatsForOrg"}
       /\ validatePaginationParams(DefaultPage(a.page), DefaultPerPage(a.per_page)) # NoErr
    \/ /\ op \in UsageOps
       /\ \/ Truthy(a.since) /\ validateDateString(a.since, "since") # NoErr
          \/ Truthy(a.until) /\ validateDateString(a.until, "until") # NoErr
    \/ /\ op \in BulkOps
       /\ \E i \in 1..Len(a.usernames) : validateUsername(a.usernames[i]) # NoErr
    \/ /\ op = "getCopilotSeatDetails"
       /\ validateUsername(a.username) # NoErr

\* C9: when a validator that applies rejects the arguments of a facade
\* operation, the operation raises before retryOperation is entered and no
\* upstream call is made.
C9_ValidationBeforeUpstream ==
    (caller \in FacadeOps /\ SomeValidatorRejects(caller, args)) =>
        /\ pc = "done"
        /\ facadeResult.kind = "error"
        /\ facadeResult.err.cls = "ValidationError"
        /\ result = Pending
        /\ attempt = 0
        /\ calls = 0
        /\ inflight = {}

C9_Witness ==
    /\ caller = "getCopilotUsageForOrg"
    /\ args.org = OctoOrg
    /\ args.until = InvalidDate
    /\ pc = "done"
    /\ facadeResult.err.field = "until"
    /\ calls = 0

\* C10: a bulk operation reaches the upstream only with a non-empty list
\* whose every element passes validateUsername; an empty list, or a list
\* with a malformed element at any position, is rejected with no upstream
\* call.
C10_BulkAllOrNothing ==
    caller \in BulkOps =>
        LET us == args.usernames
            malformed == {i \in 1..Len(us) : validateUsername(us[i]) # NoErr}
        IN  /\ calls >= 1 => (Len(us) >= 1 /\ malformed = {})
            /\ (Len(us) = 0 \/ malformed # {}) =>
                  /\ pc = "done"
                  /\ facadeResult.kind = "error"
                  /\ calls = 0
                  /\ result = Pending

C10_Witness ==
    /\ caller = "addCopilotSeatsForUsers"
    /\ args.org = OctoOrg
    /\ args.usernames = <<OkUser, BadUserBad>>
    /\ pc = "done"
    /\ facadeResult.err.cls = "ValidationError"
    /\ calls = 0

(***************************************************************************)
(* The error surface and the success path of the facade.                    *)
(***************************************************************************)
\* the error classes handleAPIError raises
ClassifiedClasses == {"GitHubAPIError", "RateLimitError"}

\* C11: every failure that leaves a facade operation is a ValidationError, a
\* GitHubAPIError or a RateLimitError, whatever the arguments and whatever
\* the upstream does.
C11_OnlyValidationOrClassified ==
    (caller \in FacadeOps /\ pc = "done" /\ facadeResult.kind = "error") =>
        facadeResult.err.cls \in {"ValidationError"} \cup ClassifiedClasses

\* the arguments of the facade operation pass every check the claim calls
\* validation
ArgumentsValid(op, a) ==
    /\ ~SomeValidatorRejects(op, a)
    /\ op \in BulkOps => Len(a.usernames) >= 1

\* C12: with valid arguments and a first upstream call that succeeds, a
\* facade operation returns the response of that call unmodified after
\* exactly one upstream call, and the call carries the caller's arguments,
\* with page 1 and per_page 50 where they were omitted.
C12_SuccessReturnsUpstreamResponse ==
    (/\ caller \in FacadeOps
     /\ ArgumentsValid(caller, args)
     /\ Len(outcomes) >= 1
     /\ outcomes[1].kind = "value") =>
        /\ pc = "done"
        /\ facadeResult = [kind |-> "value", val |-> outcomes[1].val, err |-> NoErr]
        /\ calls = 1
        /\ Len(requests) = 1
        /\ requests[1].org = args.org
        /\ caller \in UsageOps =>
              /\ requests[1].since = args.since
              /\ requests[1].until = args.until
        /\ caller \in UsageOps \cup {"getCopilotSeatsForOrg"} =>
              /\ requests[1].page = (IF args.page = Undefined THEN 1 ELSE args.page)
              /\ requests[1].per_page =
                    (IF args.per_page = Undefined THEN 50 ELSE args.per_page)
        /\ caller \in BulkOps => requests[1].usernames = args.usernames
        /\ caller = "getCopilotSeatDetails" => requests[1].username = args.username

C12_Witness ==
    /\ caller = "getCopilotSeatsForOrg"
    /\ args.org = OctoOrg
    /\ args.page = Undefined
    /\ args.per_page = Undefined
    /\ pc = "done"
    /\ calls = 1
    /\ requests[1].page = 1
    /\ requests[1].per_page = 50
    /\ facadeResult = Returned("v2")

(***************************************************************************)
(* The decision table of handleAPIError.                                    *)
(***************************************************************************)
\* the response of the upstream error has an x-ratelimit-reset header
HeaderPresent(e) == e.resp = "headers" /\ e.reset # UndefStr

\* the header is there and its value is not the empty string
HeaderNonEmpty(e) == HeaderPresent(e) /\ e.reset # <<>>

\* r is the GitHubAPIError of the kind that has the status code and the
\* message given
IsKind(r, statusCode, msg) ==
    /\ r.cls = "GitHubAPIError"
    /\ r.statusCode = statusCode
    /\ r.msg = msg

\* r is what the table prescribes for the upstream error e, where header
\* says whether e counts as carrying the rate limit header and unknownMsg is
\* the message of the Unknown row
DecisionTable(e, r, header, unknownMsg) ==
    IF e.status = 401
    THEN IsKind(r, 401, "Authentication failed. Please check your GitHub token or app credentials.")
    ELSE IF e.status = 403 /\ header
    THEN r.cls = "RateLimitError"
    ELSE IF e.status = 403
    THEN IsKind(r, 403, "Access forbidden. Check your permissions for this operation.")
    ELSE IF e.status = 404
    THEN IsKind(r, 404, "Resource not found. Please check the organization/user name.")
    ELSE IF e.status # Undefined /\ e.status >= 500
    THEN IsKind(r, e.status, "GitHub API server error. Please try again later.")
    ELSE r.cls = "GitHubAPIError" /\ r.msg = unknownMsg

\* handleAPIError has been called and has settled
Classified == caller = "handleAPIError" /\ pc = "done"

\* C13 as stated: handleAPIError maps an upstream error by the first matching
\* row: 401 -> Unauthorized; 403 with an x-ratelimit-reset header ->
\* RateLimitError; 403 without it -> Forbidden; 404 -> NotFound; >= 500 ->
\* ServerError with the original status; anything else or no status ->
\* Unknown with the original message verbatim.
C13_DecisionTableAsStated ==
    Classified =>
        /\ result.kind = "error"
        /\ DecisionTable(apiError, result.err, HeaderPresent(apiError), apiError.msg)

\* C13 amended: the same table, where the rate limit row needs a header with
\* a non-empty value (an empty value is classified Forbidden) and the Unknown
\* row carries the original message when there is one and "Unknown GitHub
\* API error" when the message is empty or missing.
C13_DecisionTable ==
    Classified =>
        /\ result.kind = "error"
        /\ DecisionTable(apiError, result.err, HeaderNonEmpty(apiError),
                         IF apiError.msg = "" THEN "Unknown GitHub API error"
                         ELSE apiError.msg)

C13_Witness ==
    /\ Classified
    /\ apiError.status = 422
    /\ apiError.msg = "Validation Failed"
    /\ result.err.cls = "GitHubAPIError"
    /\ result.err.statusCode = 422
    /\ result.err.msg = "Validation Failed"

\* C14: for every upstream error record, also one with no status, with no
\* response or with a response that has no headers, handleAPIError does not
\* return: it raises a GitHubAPIError or a RateLimitError and no error of
\* another type.
C14_AlwaysRaisesClassified ==
    Classified =>
        /\ result.kind = "error"
        /\ result.err.cls \in {"GitHubAPIError", "RateLimitError"}

C14_Witness ==
    /\ Classified
    /\ apiError.status = 403
    /\ apiError.resp = "noHeaders"
    /\ result.kind = "error"
    /\ result.err.cls = "GitHubAPIError"
    /\ result.err.statusCode = 403

\* the number of unix seconds the x-ratelimit-reset header of e spells
HeaderSeconds(e) == IF e.reset = Header60 THEN 60 ELSE 61

\* n = ceil(ms / 1000)
IsCeilOfSeconds(n, ms) == n * 1000 >= ms /\ (n - 1) * 1000 < ms

\* C15: for status 403 with header x-ratelimit-reset = R unix seconds,
\* handleAPIError raises a RateLimitError with resetTime the instant R*1000 ms
\* and retryAfter = ceil((R*1000 - now)/1000) seconds; when R is 60 s after
\* now, retryAfter is 60.
C15_RateLimitTimes ==
    (/\ Classified
     /\ apiError.status = 403
     /\ apiError.resp = "headers"
     /\ apiError.reset \in {Header60, Header61}) =>
        LET R == HeaderSeconds(apiError)
            r == result.err
        IN  /\ result.kind = "error"
            /\ r.cls = "RateLimitError"
            /\ r.resetTime = R * 1000
            /\ IsCeilOfSeconds(r.retryAfter, R * 1000 - now)
            /\ R * 1000 = now + 60 * 1000 => r.retryAfter = 60

C15_Witness ==
    /\ Classified
    /\ apiError.status = 403
    /\ apiError.reset = Header61
    /\ now = 1000
    /\ result.err.cls = "RateLimitError"
    /\ result.err.resetTime = 61000
    /\ result.err.retryAfter = 60

(***************************************************************************)
(* The validators.                                                          *)
(***************************************************************************)
\* s is made of alphanumerics and hyphens and neither starts nor ends with a
\* hyphen
IsHandle(s) ==
    /\ Len(s) >= 1
    /\ \A i \in 1..Len(s) : s[i] \in Letters \cup DigitChars \cup {"-"}
    /\ s[1] # "-"
    /\ s[Len(s)] # "-"

\* the validator named v has been called and has settled
Validated(v) == caller = v /\ pc = "done"

\* C16 as stated: validateOrganizationName fails for every name of length 0
\* or greater than 39, and succeeds for every name that matches
\* ^[a-zA-Z0-9]([a-zA-Z0-9-]*[a-zA-Z0-9])?$.
C16_OrgNameAsStated ==
    Validated("validateOrganizationName") =>
        /\ (Len(args.org) = 0 \/ Len(args.org) > 39) => result.kind = "error"
        /\ IsHandle(args.org) => result.kind = "value"

\* C16 amended: validateOrganizationName fails for every name of length 0 or
\* greater than 39, and succeeds for every name of length 1..39 that matches
\* the pattern.
C16_OrgName ==
    Validated("validateOrganizationName") =>
        /\ (Len(args.org) = 0 \/ Len(args.org) > 39) =>
              /\ result.kind = "error"
              /\ result.err.cls = "ValidationError"
        /\ (Len(args.org) \in 1..39 /\ IsHandle(args.org)) => result.kind = "value"

C16_Witness ==
    /\ Validated("validateOrganizationName")
    /\ Len(args.org) = 39
    /\ IsHandle(args.org)
    /\ result.kind = "value"

\* s is a handle, then one underscore, then a non-empty alphanumeric suffix
IsIdpHandle(s) ==
    LET underscores == {i \in 1..Len(s) : s[i] = "_"}
    IN  /\ Cardinality(underscores) = 1
        /\ LET u == CHOOSE i \in underscores : TRUE
           IN  /\ u > 1
               /\ u < Len(s)
               /\ IsHandle(SubSeq(s, 1, u - 1))
               /\ \A i \in (u + 1)..Len(s) : s[i] \in Letters \cup DigitChars

\* C17: validateUsername accepts a string exactly when its length is in 1..39
\* and it is a standard handle or an IdP handle; test-my_idp and username_idp
\* are accepted, test_my-user and bad_user_bad are rejected with a
\* ValidationError.
C17_UsernamePatterns ==
    Validated("validateUsername") =>
        LET s == args.username
        IN  /\ result.kind = "value" <=>
                  (Len(s) \in 1..39 /\ (IsHandle(s) \/ IsIdpHandle(s)))
            /\ result.kind # "value" =>
                  (result.kind = "error" /\ result.err.cls = "ValidationError")
            /\ s \in {TestMyIdp, UsernameIdp, OkUser} => result.kind = "value"
            /\ s \in {TestMyUser, BadUserBad} => result.kind = "error"

C17_Witness ==
    /\ Validated("validateUsername")
    /\ args.username = TestMyIdp
    /\ result.kind = "value"

\* the number the digits of s at positions i..j spell
NumberAt(s, i, j) == DigitsValue(SubSeq(s, i, j))

IsLeapYear(y) == (y % 4 = 0 /\ y % 100 # 0) \/ y % 400 = 0

DaysInMonth(y, m) ==
    IF m = 2 THEN (IF IsLeapYear(y) THEN 29 ELSE 28)
    ELSE IF m \in {4, 6, 9, 11} THEN 30
    ELSE 31

\* s has the shape YYYY-MM-DD
HasDateShape(s) ==
    /\ Len(s) = 10
    /\ s[5] = "-"
    /\ s[8] = "-"
    /\ \A i \in (1..10) \ {5, 8} : s[i] \in DigitChars

\* s has the shape YYYY-MM-DD and names a day of the calendar
IsRealCalendarDate(s) ==
    /\ HasDateShape(s)
    /\ NumberAt(s, 6, 7) \in 1..12
    /\ NumberAt(s, 9, 10) \in 1..DaysInMonth(NumberAt(s, 1, 4), NumberAt(s, 6, 7))

\* the value handed to validateDateString
DateArgument == IF args.since # UndefStr THEN args.since ELSE args.until

\* C18: validateDateString succeeds only when the value has the exact shape
\* YYYY-MM-DD and denotes a real calendar date; 2024-02-30, which has the
\* shape and does not exist, is rejected with a ValidationError.
C18_OnlyRealCalendarDates ==
    Validated("validateDateString") =>
        /\ result.kind = "value" => IsRealCalendarDate(DateArgument)
        /\ DateArgument = Date20240230 =>
              (result.kind = "error" /\ result.err.cls = "ValidationError")

\* C19: validatePaginationParams(page, per_page) succeeds exactly when
\* page >= 1 and 1 <= per_page <= 100; (0, 50) and (1, 101) fail, (1, 100)
\* succeeds; when both arguments are out of range the failure reported is
\* the one for page.
C19_PaginationRange ==
    Validated("validatePaginationParams") =>
        LET p == args.page
            pp == args.per_page
        IN  /\ result.kind = "value" <=> (p >= 1 /\ 1 <= pp /\ pp <= 100)
            /\ result.kind # "value" =>
                  (result.kind = "error" /\ result.err.cls = "ValidationError")
            /\ (p = 0 /\ pp = 50) => result.kind = "error"
            /\ (p = 1 /\ pp = 101) => result.kind = "error"
            /\ (p = 1 /\ pp = 100) => result.kind = "value"
            /\ (p < 1 /\ (pp < 1 \/ pp > 100)) => result.err.field = "page"

C19_Witness ==
    /\ Validated("validatePaginationParams")
    /\ args.page = 0
    /\ args.per_page = 101
    /\ result.kind = "error"
    /\ result.err.field = "page"

\* the facade operation has rejected its arguments before retryOperation
RejectedByValidation ==
    /\ caller \in FacadeOps
    /\ pc = "done"
    /\ facadeResult.kind = "error"
    /\ result = Pending
    /\ calls = 0

\* the parameter named field is one the operation takes and its value is
\* not admissible
IsOffending(op, a, field) ==
    \/ field = "org" /\ validateOrganizationName(a.org) # NoErr
    \/ /\ field = "username"
       /\ \/ op = "getCopilotSeatDetails" /\ validateUsername(a.username) # NoErr
          \/ /\ op \in BulkOps
             /\ \E i \in 1..Len(a.usernames) : validateUsername(a.usernames[i]) # NoErr
    \/ field = "page" /\ a.page # Undefined /\ a.page < 1
    \/ field = "per_page" /\ a.per_page # Undefined /\ (a.per_page < 1 \/ a.per_page > 100)
    \/ field = "since" /\ validateDateString(a.since, "since") # NoErr
    \/ field = "until" /\ validateDateString(a.until, "until") # NoErr

\* C20: every rejection made by the validation step of a facade operation is
\* a validation failure that carries the name of the offending parameter
\* (org, username, page, per_page, since or until).
C20_RejectionNamesParameter ==
    RejectedByValidation =>
        /\ facadeResult.err.cls = "ValidationError"
        /\ facadeResult.err.field \in
              {"org", "username", "page", "per_page", "since", "until"}
        /\ IsOffending(caller, args, facadeResult.err.field)

(***************************************************************************)
(* Date arguments of the usage operations, and the suspensions of            *)
(* retryOperation.                                                          *)
(***************************************************************************)
\* C28: in getCopilotUsageForOrg and getCopilotUsageForEnterprise, a since or
\* until argument that is supplied and is not a valid YYYY-MM-DD date (the
\* empty string included) makes the operation raise a ValidationError
\* without an upstream call; so every since/until value that reaches the
\* upstream is a validated date.
C28_OnlyValidatedDatesForwarded ==
    caller \in UsageOps =>
        /\ (\/ args.since # UndefStr /\ ~IsRealCalendarDate(args.since)
            \/ args.until # UndefStr /\ ~IsRealCalendarDate(args.until)) =>
              /\ pc = "done"
              /\ facadeResult.kind = "error"
              /\ facadeResult.err.cls = "ValidationError"
              /\ calls = 0
        /\ \A k \in 1..Len(requests) :
              /\ requests[k].since # UndefStr => IsRealCalendarDate(requests[k].since)
              /\ requests[k].until # UndefStr => IsRealCalendarDate(requests[k].until)

\* the sum of the delays of the timers that are pending
RECURSIVE SumSet(_)
SumSet(S) ==
    IF S = {} THEN 0
    ELSE LET x == CHOOSE y \in S : TRUE IN x + SumSet(S \ {x})

\* C29: no suspension follows the final failed attempt: when all maxRetries
\* attempts fail, exactly maxRetries - 1 suspensions have occurred and their
\* total is backoffMs * (2^(maxRetries-1) - 1); the suspensions of a run,
\* elapsed or pending, never exceed that total, which is 3000 ms for the
\* 3 attempts and the 1000 ms base of the facade.
C29_NoSuspensionAfterFinalFailure ==
    maxRetries >= 1 =>
        /\ (/\ Len(outcomes) = maxRetries
            /\ \A k \in 1..maxRetries : outcomes[k].kind = "error") =>
              /\ pc = "done"
              /\ timers = {}
              /\ Len(sleeps) = maxRetries - 1
              /\ SumSeq(sleeps) = backoffMs * (2^(maxRetries - 1) - 1)
        /\ SumSeq(sleeps) + SumSet(timers) <= backoffMs * (2^(maxRetries - 1) - 1)
        /\ caller \in FacadeOps => SumSeq(sleeps) + SumSet(timers) <= 3000

C29_Witness ==
    /\ pc = "done"
    /\ caller = "getCopilotSeatsForOrg"
    /\ Len(outcomes) = 3
    /\ \A k \in 1..3 : outcomes[k].kind = "error"
    /\ sleeps = <<1000, 2000>>
    /\ facadeResult.kind = "error"

\* C30: retryOperation called with maxRetries <= 0 never invokes the
\* operation, never suspends, and raises the placeholder error 'Unknown
\* error'.
C30_NoAttemptWithoutBudget ==
    (caller = "direct" /\ maxRetries <= 0) =>
        /\ pc = "done"
        /\ calls = 0
        /\ outcomes = <<>>
        /\ sleeps = <<>>
        /\ timers = {}
        /\ inflight = {}
        /\ result.kind = "error"
        /\ result.err.cls = "Error"
        /\ result.err.msg = "Unknown error"

C30_Witness ==
    /\ caller = "direct"
    /\ maxRetries = 0
    /\ pc = "done"
    /\ calls = 0
    /\ result.err.msg = "Unknown error"

(***************************************************************************)
(* The constructor of GitHubService and the Logger.                         *)
(***************************************************************************)
\* the field of the configuration is there and is not the empty string
IsProvided(field) == field # UndefStr /\ Len(field) > 0

\* C24: constructing GitHubService succeeds exactly when the configuration
\* has a non-empty token or all three of appId, privateKey and
\* installationId; otherwise (a partial triple included) it raises 'Either
\* token or GitHub App credentials must be provided'; with both present the
\* token is the authentication chosen.
C24_ConstructorCredentials ==
    (caller = "GitHubService" /\ pc = "done") =>
        LET hasToken == IsProvided(config.token)
            hasTriple == /\ IsProvided(config.appId)
                         /\ IsProvided(config.privateKey)
                         /\ IsProvided(config.installationId)
        IN  /\ result.kind = "value" <=> (hasToken \/ hasTriple)
            /\ ~(hasToken \/ hasTriple) =>
                  /\ result.kind = "error"
                  /\ result.err.msg = "Either token or GitHub App credentials must be provided"
                  /\ auth = "none"
            /\ hasToken => auth = "token"
            /\ (~hasToken /\ hasTriple) => auth = "app"

C24_Witness ==
    /\ caller = "GitHubService"
    /\ pc = "done"
    /\ ~IsProvided(config.token)
    /\ IsProvided(config.appId)
    /\ IsProvided(config.privateKey)
    /\ ~IsProvided(config.installationId)
    /\ result.kind = "error"

\* the place of a level in the order error > warn > info > debug
Severity(level) ==
    CASE level = "error" -> 4
      [] level = "warn" -> 3
      [] level = "info" -> 2
      [] level = "debug" -> 1

\* the level LOG_LEVEL configures: one of the four, or info by default
ConfiguredLevel == IF logEnv \in {EnvUnset, ""} THEN "info" ELSE logEnv

\* the record handed to the logger has been written
Emitted == Len(logged) = 1 /\ logged[1].level = logCall

\* C26: the logger emits a record of level L exactly when L is at or above
\* the configured LOG_LEVEL in the order error > warn > info > debug: error
\* shows errors only, warn warnings and errors, info (the default) also
\* info, debug everything; error records are emitted under every level.
C26_LogLevelFilter ==
    (caller = "Logger.log" /\ pc = "done" /\ ConfiguredLevel \in LogLevels) =>
        /\ Emitted <=> Severity(logCall) >= Severity(ConfiguredLevel)
        /\ ~Emitted => logged = <<>>
        /\ ConfiguredLevel = "error" => (Emitted <=> logCall = "error")
        /\ ConfiguredLevel = "warn" => (Emitted <=> logCall \in {"warn", "error"})
        /\ ConfiguredLevel = "info" => (Emitted <=> logCall \in {"info", "warn", "error"})
        /\ ConfiguredLevel = "debug" => Emitted
        /\ logCall = "error" => Emitted

C26_Witness ==
    /\ caller = "Logger.log"
    /\ pc = "done"
    /\ logEnv = "warn"
    /\ logCall = "warn"
    /\ Emitted

(***************************************************************************)
(* C27: the client type is the one of the first detector that fires, in     *)
(* the order VS Code variables, Claude, Cline, Continue, Cursor, JetBrains, *)
(* Warp, Zed, Windsurf variables, process title and arguments, parent       *)
(* process; a client's own variables win over the process-based evidence;   *)
(* the result is unknown with low confidence when no detector fires; and    *)
(* every call of getClient and getClientInfo returns what the first call    *)
(* computed, whatever the environment has become since.                     *)
(***************************************************************************)
\* the positions, in the order of consultation, of the detections that fired
Fired(detections) == {k \in 1..Len(detections) : detections[k].detected}

\* the clients the indicator variables of the environment speak for
SpokenForByVariables(env) ==
    env.clientVars \cup (IF env.vscodeVars > 0 THEN {"vscode"} ELSE {})

\* the value is the verdict of the first detection that fired, or unknown
IsFirstVerdict(value, detections) ==
    LET fired == Fired(detections)
    IN  IF fired = {}
        THEN value.type = "unknown" /\ value.confidence = "low"
        ELSE LET k == CHOOSE k \in fired : \A j \in fired : k <= j
             IN  /\ value.type = detections[k].type
                 /\ value.confidence = detections[k].confidence

UsageTool == "get_copilot_usage_org"

\* an invocation has settled and no other has started
ToolSettled == stage = "idle" /\ served > 0

\* the run of executeToolSafely ended with a classified upstream 404
UpstreamNotFound(run) == run.outcome.kind = "error" /\ run.upstream.status = 404

\* C21: when the usage-metrics request of get_copilot_usage_org fails with
\* an upstream HTTP 404, the tool lists the organization's seats instead
\* and, the seats request succeeding, returns the seat information with the
\* note rather than failing.
C21_FallsBackOnUpstream404 ==
    (ToolSettled /\ tool = UsageTool /\ UpstreamNotFound(runs[1])) =>
        /\ Len(runs) = 2
        /\ runs[2].outcome.kind = "value" =>
              /\ toolResult.kind = "value"
              /\ Includes(toolResult.val, FallbackNote)
              /\ Includes(toolResult.val, Data(runs[2].outcome.val))

\* the fallback of get_copilot_usage_org does run, for other failures
FallbackReturned ==
    /\ ToolSettled
    /\ tool = UsageTool
    /\ Len(runs) = 2
    /\ toolResult.kind = "value"
    /\ Includes(toolResult.val, FallbackNote)

\* the message executeToolSafely gives a failure of each kind
IsSurfacedByKind(error, message) ==
    /\ error.cls = "ValidationError" => message = "Invalid input: " \o error.msg
    /\ (error.cls = "GitHubAPIError" /\ error.statusCode = 401) =>
          message = "Authentication failed. Please check your GitHub token or app credentials."
    /\ (error.cls = "GitHubAPIError" /\ error.statusCode = 403) =>
          message = "Access forbidden. Check your permissions for this operation."
    /\ (error.cls = "GitHubAPIError" /\ error.statusCode = 404) =>
          message = "Resource not found. Please check the organization/user name."
    /\ (error.cls = "GitHubAPIError" /\ error.statusCode \notin {401, 403, 404}) =>
          message = "GitHub API error: " \o error.msg
    /\ error.cls = "RateLimitError" =>
          /\ Len(message) > Len("Rate limit exceeded.")
          /\ SubSeq(message, 1, Len("Rate limit exceeded.")) = "Rate limit exceeded."
    /\ error.cls \notin {"ValidationError", "GitHubAPIError", "RateLimitError"} =>
          message = "Unexpected error: " \o error.msg

\* C22: every failure of an operation run through executeToolSafely is
\* thrown on as a new Error whose message is the one of the failure's kind;
\* an invocation whose last run failed settles with that Error; and the
\* server then takes the next invocation, which returns when its operation
\* succeeds.
C22_FailuresSurfacedByKind ==
    /\ \A i \in 1..Len(runs) :
          runs[i].outcome.kind = "error" =>
              /\ runs[i].surfaced.kind = "error"
              /\ runs[i].surfaced.err.cls = "Error"
              /\ IsSurfacedByKind(runs[i].outcome.err, runs[i].surfaced.err.msg)
    /\ (ToolSettled /\ runs[Len(runs)].outcome.kind = "error") =>
          /\ toolResult.kind = "error"
          /\ toolResult.err = runs[Len(runs)].surfaced.err
    /\ (ToolSettled /\ runs[Len(runs)].outcome.kind = "value") =>
          toolResult.kind = "value"
    /\ (stage = "idle" /\ served < MaxInvocations) => ENABLED ToolInvoke

\* an invocation failed with a validation error and a later one, of the
\* bulk tool with an empty list, with a plain Error
C22_Witness ==
    /\ ToolSettled
    /\ failedBefore
    /\ runs[1].outcome.err.cls = "Error"
    /\ toolResult.kind = "error"
    /\ toolResult.err.msg = "Unexpected error: selected_usernames must be a non-empty array"

\* an invocation returns after an earlier one failed
LaterInvocationReturns == ToolSettled /\ failedBefore /\ toolResult.kind = "value"

\* the upstream failure is a rate-limit one: 403 with an x-ratelimit-reset header
IsRateLimitFailure(error) == error.status = 403 /\ HasRateLimitReset(error)

\* every rate-limit failure of an attempt before the last is followed by the
\* exponential backoff and by the next attempt
RateLimitRetried ==
    \A i \in 1..Len(outcomes) :
        (/\ stage # "idle"
         /\ outcomes[i].kind = "error"
         /\ IsRateLimitFailure(outcomes[i].err)
         /\ i < FacadeMaxRetries) =>
            /\ \/ pc = "sleep" /\ calls = i /\ timers = {FacadeBackoffMs * Pow(2, i - 1)}
               \/ calls > i
            /\ calls > i => sleeps[i] = FacadeBackoffMs * Pow(2, i - 1)

\* C23: an upstream rate-limit failure is retried with exponential backoff
\* and, the budget exhausted, the tool caller gets a rate-limit message
\* that contains the number of seconds to wait.
C23_RateLimitSurfacedWithHint ==
    /\ RateLimitRetried
    /\ (/\ ToolSettled
        /\ runs[1].outcome.kind = "error"
        /\ runs[1].outcome.err.cls = "RateLimitError"
        /\ IsRateLimitFailure(runs[1].upstream)) =>
            /\ toolResult.kind = "error"
            /\ Includes(toolResult.err.msg, "Rate limit exceeded.")
            /\ Includes(toolResult.err.msg,
                        NumberText(runs[1].outcome.err.retryAfter) \o " seconds")

\* the rate-limit failure is surfaced without the number of seconds
RateLimitWithoutHint ==
    /\ ToolSettled
    /\ toolResult.kind = "error"
    /\ toolResult.err.msg = "Rate limit exceeded. Please try again later."

\* the rate-limit failure is not surfaced: the tool returns seat information
RateLimitFellBack ==
    /\ ToolSettled
    /\ IsRateLimitFailure(runs[1].upstream)
    /\ Len(runs) = 2
    /\ toolResult.kind = "value"

(***************************************************************************)
(* C25: invocations in flight together run their own pipelines.  The        *)
(* outcome, the number of upstream calls and the backoffs of a settled      *)
(* invocation are those its own arguments and its own upstream responses    *)
(* give, whatever the other invocations did in between; and an invocation   *)
(* that has not settled can take its next step whatever the others are      *)
(* doing, in particular while another one is suspended in its backoff.      *)
(***************************************************************************)
\* what the arguments and the upstream responses of r give on their own
OwnPipeline(r) ==
    IF FacadeValidate(r.op, r.args) # NoErr
    THEN /\ r.calls = 0
         /\ r.outcomes = <<>>
         /\ r.sleeps = <<>>
         /\ r.result = Threw(FacadeValidate(r.op, r.args))
    ELSE LET n == Len(r.outcomes)
         IN  /\ n \in 1..FacadeMaxRetries
             /\ r.calls = n
             /\ \A k \in 1..(n - 1) :
                   r.outcomes[k].kind = "error" /\ ~NonRetryable(r.outcomes[k].err)
             /\ r.sleeps = [k \in 1..(n - 1) |-> FacadeBackoffMs * Pow(2, k - 1)]
             /\ r.timers = {}
             /\ IF r.outcomes[n].kind = "value"
                THEN r.result = r.outcomes[n]
                ELSE /\ n = FacadeMaxRetries \/ NonRetryable(r.outcomes[n].err)
                     /\ r.result = Threw(handleAPIError(r.outcomes[n].err, now))

C25_InvocationsIndependent ==
    \A i \in 1..MaxConcurrent :
        /\ inv[i].pc = "done" => OwnPipeline(inv[i])
        /\ inv[i].pc # "done" => ENABLED ConcurrentStep(i)
        /\ inv[i].pc = "sleep" => inv[i].timers = {FacadeBackoffMs * Pow(2, inv[i].calls - 1)}

\* the first invocation is suspended in its first backoff while the second,
\* made after it, has gone through three attempts and two backoffs of its own
C25_Witness ==
    /\ inv[1].pc = "sleep"
    /\ inv[1].calls = 1
    /\ inv[2].pc = "done"
    /\ inv[2].calls = FacadeMaxRetries
    /\ inv[2].sleeps = <<1000, 2000>>
    /\ inv[2].result.kind = "error"

====
